---- MODULE Spec2Model ----
(***************************************************************************)
(* Model of the Classical Cipher Toolbox page (src/pages/Classical         *)
(* Cipher.py): the parameter catalog, parse_param, build_param_ui,         *)
(* safe_cipher_instance and the Encipher / Decipher handlers of main().    *)
(*                                                                         *)
(* Text is a sequence of one-character strings, so that parsing,           *)
(* formatting, trimming and the cipher transforms are computed character   *)
(* by character.                                                           *)
(***************************************************************************)
EXTENDS Integers, Sequences, FiniteSets, TLC

VARIABLES
    cipher_params,   \* the catalog (module global, line 12)
    py_lstrip,       \* the interpreter strips leading blanks in ast.literal_eval (3.10+) or not
    probe,           \* the function call under examination: its name and arguments
    ret,             \* what that call returned, or the exception it let escape
    selected,        \* session state: the select box of each section
    chk,             \* session state: the "Use ...?" check boxes rendered in each section
    inp,             \* session state: the parameter text inputs rendered in each section
    text_area,       \* session state: the text area of each section
    clicked,         \* the button that returned True in the last run: "enc", "dec" or "none"
    out,             \* the elements the handlers showed in the last run of the script
    calls,           \* the calls the handlers made in the last run of the script
    sessions,        \* user sessions running the page side by side: the run of each in progress
    session_state    \* st.session_state: the keys the padding and hash pages store, and their widgets

widgets == <<selected, chk, inp, text_area>>
page == <<selected, chk, inp, text_area, clicked, out, calls>>
vars == <<cipher_params, py_lstrip, probe, ret, selected, chk, inp, text_area, clicked, out, calls,
          sessions, session_state>>

\* ------------------------------------------------------------------ bounds
\* Longest raw text enumerated exhaustively over ProbeChars.
MaxRawLen == 3

\* Longest text to transform enumerated exhaustively over TextChars.
MaxTextLen == 3

\* Largest integer key (Affine a, Caesar key) enumerated.
MaxKey == 27

\* Longest byte string to pad enumerated exhaustively over DataBytes.
MaxDataLen == 3

\* Longest CMAC key enumerated, in bytes.
MaxKeyBytes == 33

\* ------------------------------------------------------------------ characters
Digits == {"0", "1", "2", "3", "4", "5", "6", "7", "8", "9"}

UpperLetters ==
    <<"A", "B", "C", "D", "E", "F", "G", "H", "I", "J", "K", "L", "M",
      "N", "O", "P", "Q", "R", "S", "T", "U", "V", "W", "X", "Y", "Z">>

LowerLetters ==
    <<"a", "b", "c", "d", "e", "f", "g", "h", "i", "j", "k", "l", "m",
      "n", "o", "p", "q", "r", "s", "t", "u", "v", "w", "x", "y", "z">>

Range(f) == {f[i] : i \in DOMAIN f}

Letters == Range(UpperLetters) \cup Range(LowerLetters)

DigitVal(c) ==
    CASE c = "0" -> 0 [] c = "1" -> 1 [] c = "2" -> 2 [] c = "3" -> 3 [] c = "4" -> 4
      [] c = "5" -> 5 [] c = "6" -> 6 [] c = "7" -> 7 [] c = "8" -> 8 [] c = "9" -> 9

DigitChar(n) == CHOOSE c \in Digits : DigitVal(c) = n

\* ------------------------------------------------------------------ Python values
\* A Python value of the kinds ast.literal_eval can produce from the modelled
\* characters, plus str. Every value has the same fields, unused ones empty.
Value(k, num, dec, t, xs) == [kind |-> k, n |-> num, d |-> dec, text |-> t, items |-> xs]

NoneV == Value("null", 0, 0, <<>>, <<>>)
IntV(i) == Value("int", i, 0, <<>>, <<>>)
BoolV(b) == Value("bool", IF b THEN 1 ELSE 0, 0, <<>>, <<>>)
\* the float m / 10^dec, with no trailing zero in its dec decimals
FloatV(m, dec) == Value("float", m, dec, <<>>, <<>>)
StrV(t) == Value("str", 0, 0, t, <<>>)
ListV(xs) == Value("list", 0, 0, <<>>, xs)
TupleV(xs) == Value("tuple", 0, 0, <<>>, xs)
EllipsisV == Value("ellipsis", 0, 0, <<>>, <<>>)

\* The result of a call: a returned value, or an exception that escaped it.
Return(v) == [raised |-> FALSE, val |-> v, exc |-> "none"]
Raise(e) == [raised |-> TRUE, val |-> NoneV, exc |-> e]

\* ------------------------------------------------------------------ ast.literal_eval
\* Parser results: ok, the value, and the position after it.
Parsed(v, j) == [ok |-> TRUE, val |-> v, next |-> j]
NoParse == [ok |-> FALSE, val |-> NoneV, next |-> 0]

RECURSIVE SkipBlanks(_, _)
SkipBlanks(s, i) ==
    IF i <= Len(s) /\ s[i] = " " THEN SkipBlanks(s, i + 1) ELSE i

\* end of the run of digits that starts at i (i itself when s[i] is no digit)
RECURSIVE DigitsEnd(_, _)
DigitsEnd(s, i) ==
    IF i <= Len(s) /\ s[i] \in Digits THEN DigitsEnd(s, i + 1) ELSE i

\* the number written by the digits s[i..j-1]
RECURSIVE DigitsValue(_, _, _)
DigitsValue(s, i, j) ==
    IF j <= i THEN 0 ELSE DigitsValue(s, i, j - 1) * 10 + DigitVal(s[j - 1])

RECURSIVE Pow10(_)
Pow10(k) == IF k = 0 THEN 1 ELSE 10 * Pow10(k - 1)

\* end of the name (identifier or keyword) that starts at i
RECURSIVE NameEnd(_, _)
NameEnd(s, i) ==
    IF i <= Len(s) /\ (s[i] \in Letters \/ s[i] \in Digits \/ s[i] = "_")
    THEN NameEnd(s, i + 1) ELSE i

\* m / 10^dec without trailing zeros in the decimals
RECURSIVE NormFloat(_, _)
NormFloat(m, dec) ==
    IF dec > 0 /\ m % 10 = 0 THEN NormFloat(m \div 10, dec - 1) ELSE FloatV(m, dec)

\* the integer written by the digits s[i..e1-1]: no leading zero unless it
\* is all zeros
IntFrom(s, i, e1) ==
    IF e1 = i THEN NoParse
    ELSE IF e1 - i > 1 /\ s[i] = "0" /\ DigitsValue(s, i, e1) # 0 THEN NoParse
    ELSE Parsed(IntV(DigitsValue(s, i, e1)), e1)

\* the float written by the digits s[i..e1-1], the point at e1 and the
\* digits s[e1+1..e2-1]
FloatFrom(s, i, e1, e2) ==
    IF (e1 - i) + (e2 - (e1 + 1)) = 0 THEN NoParse
    ELSE Parsed(NormFloat(DigitsValue(s, i, e1) * Pow10(e2 - (e1 + 1))
                            + DigitsValue(s, e1 + 1, e2), e2 - (e1 + 1)), e2)

\* a number whose leading digits end before e1
NumberFrom(s, i, e1) ==
    IF e1 <= Len(s) /\ s[e1] = "." THEN FloatFrom(s, i, e1, DigitsEnd(s, e1 + 1))
    ELSE IntFrom(s, i, e1)

\* A number token at i: decimal integer or a float with a decimal point.
ParseNumber(s, i) == NumberFrom(s, i, DigitsEnd(s, i))

\* -v for a number; the float -0.0 keeps its sign in the text field
Negated(v) ==
    IF v.kind = "float" /\ v.n = 0 THEN Value("float", 0, 0, <<"-">>, <<>>)
    ELSE [v EXCEPT !.n = 0 - v.n]

\* a number r with the sign written before it
Signed(sign, r) ==
    IF ~r.ok THEN NoParse
    ELSE IF sign = "-" THEN Parsed(Negated(r.val), r.next) ELSE r

\* the constant a name stands for; any other name is no literal
NameValue(name, e) ==
    IF name = <<"N", "o", "n", "e">> THEN Parsed(NoneV, e)
    ELSE IF name = <<"T", "r", "u", "e">> THEN Parsed(BoolV(TRUE), e)
    ELSE IF name = <<"F", "a", "l", "s", "e">> THEN Parsed(BoolV(FALSE), e)
    ELSE NoParse

NameFrom(s, i, e) == NameValue(SubSeq(s, i, e - 1), e)

\* position p closes the items: the closing character, or the end of the text
AtClose(s, p, close) == IF close = "" THEN p > Len(s) ELSE p <= Len(s) /\ s[p] = close

\* the collection of the items xs that closes at p
Closed(xs, p, close) ==
    IF close = "" THEN Parsed(TupleV(xs), p) ELSE Parsed(ListV(xs), p + 1)

RECURSIVE ParseElem(_, _), ParseItems(_, _, _, _), ItemsAfter(_, _, _, _, _),
          ItemsAfterComma(_, _, _, _)

\* a list whose first item, if any, starts at j
ListFrom(s, j) ==
    IF j <= Len(s) /\ s[j] = "]" THEN Parsed(ListV(<<>>), j + 1)
    ELSE ParseItems(s, j, <<>>, "]")

\* One literal at i: a number, a signed number, None / True / False / ..., or a list.
ParseElem(s, i) ==
    IF i > Len(s) THEN NoParse
    ELSE IF i + 2 <= Len(s) /\ SubSeq(s, i, i + 2) = <<".", ".", ".">>
         THEN Parsed(EllipsisV, i + 3)
    ELSE IF s[i] \in Digits \/ s[i] = "." THEN ParseNumber(s, i)
    ELSE IF s[i] = "-" \/ s[i] = "+"
         THEN Signed(s[i], ParseNumber(s, SkipBlanks(s, i + 1)))
    ELSE IF s[i] \in Letters \/ s[i] = "_" THEN NameFrom(s, i, NameEnd(s, i))
    ELSE IF s[i] = "[" THEN ListFrom(s, SkipBlanks(s, i + 1))
    ELSE NoParse

\* the items after a comma, the next one starting at k2 unless they close there
ItemsAfterComma(s, k2, xs, close) ==
    IF AtClose(s, k2, close) THEN Closed(xs, k2, close)
    ELSE ParseItems(s, k2, xs, close)

\* the items after the item r, with k the position of what follows it
ItemsAfter(s, r, k, acc, close) ==
    IF ~r.ok THEN NoParse
    ELSE IF AtClose(s, k, close) THEN Closed(Append(acc, r.val), k, close)
    ELSE IF k <= Len(s) /\ s[k] = ","
         THEN ItemsAfterComma(s, SkipBlanks(s, k + 1), Append(acc, r.val), close)
    ELSE NoParse

ItemsNext(s, r, acc, close) ==
    ItemsAfter(s, r, IF r.ok THEN SkipBlanks(s, r.next) ELSE 0, acc, close)

\* Comma-separated literals from i, a trailing comma allowed, up to the
\* closing character (close = "]") or to the end of the text (close = "").
ParseItems(s, i, acc, close) == ItemsNext(s, ParseElem(s, i), acc, close)

\* the expression whose first literal is r, with k the position of what follows it
ExprAfter(s, r, k) ==
    IF ~r.ok THEN NoParse
    ELSE IF k > Len(s) THEN r
    ELSE IF s[k] = "," THEN ParseItems(s, 1, <<>>, "")
    ELSE NoParse

ExprNext(s, r) == ExprAfter(s, r, IF r.ok THEN SkipBlanks(s, r.next) ELSE 0)

\* The whole text as one expression: a literal, or a tuple written without
\* parentheses.
ParseExpr(s) == ExprNext(s, ParseElem(s, 1))

\* the outcome of ast.literal_eval for the parse r
EvalResult(r) == IF r.ok THEN Return(r.val) ELSE Raise("SyntaxError")

\* ast.literal_eval on the text t whose first non-blank is at first
EvalText(t, first) ==
    IF first > 1 /\ ~py_lstrip THEN Raise("IndentationError")
    ELSE EvalResult(ParseExpr(SubSeq(t, first, Len(t))))

\* ast.literal_eval(node_or_string): the value of a literal text; SyntaxError,
\* IndentationError or ValueError otherwise. A value that is no text is a
\* malformed node.
literal_eval(val) ==
    IF val.kind # "str" THEN Raise("ValueError")
    ELSE EvalText(val.text, SkipBlanks(val.text, 1))

\* ------------------------------------------------------------------ parse_param
NoneText == <<"N", "o", "n", "e">>

\* except: return val
Caught(r, val) == IF r.raised THEN Return(val) ELSE Return(r.val)

\* parse_param without its try / except: a failed interpretation escapes.
parse_param_uncaught(val) ==
    IF val \in {StrV(NoneText), NoneV, StrV(<<>>)} THEN Return(NoneV)
    ELSE literal_eval(val)

\* parse_param without the test for "None", None and "".
parse_param_no_null_test(val) == Caught(literal_eval(val), val)

\* parse_param handing every text back as it is (no literal_eval)
parse_param_keeps_text(val) ==
    IF val \in {StrV(NoneText), NoneV, StrV(<<>>)} THEN Return(NoneV) ELSE Return(val)

\* parse_param keeping a literal's value only when it is an integer, a
\* string, a list or None, and handing the text back otherwise
parse_param_narrow(val) ==
    IF val \in {StrV(NoneText), NoneV, StrV(<<>>)} THEN Return(NoneV)
    ELSE IF Caught(literal_eval(val), val).val.kind \in {"int", "str", "list", "null"}
         THEN Caught(literal_eval(val), val)
         ELSE Return(val)

parse_param(val) ==
    IF val \in {StrV(NoneText), NoneV, StrV(<<>>)} THEN Return(NoneV)
    ELSE Caught(literal_eval(val), val)

\* ------------------------------------------------------------------ str()
RECURSIVE NatDigits(_)
NatDigits(n) ==
    IF n < 10 THEN <<DigitChar(n)>> ELSE Append(NatDigits(n \div 10), DigitChar(n % 10))

\* the decimals of a float: frac written with exactly dec digits
RECURSIVE FracDigits(_, _)
FracDigits(frac, dec) ==
    IF dec = 0 THEN <<>> ELSE Append(FracDigits(frac \div 10, dec - 1), DigitChar(frac % 10))

RECURSIVE py_repr(_), JoinRepr(_, _)

\* repr(items[i]), ..., joined by ", "
JoinRepr(items, i) ==
    IF i > Len(items) THEN <<>>
    ELSE IF i = Len(items) THEN py_repr(items[i])
    ELSE py_repr(items[i]) \o <<",", " ">> \o JoinRepr(items, i + 1)

\* repr(v). Floats are written in positional notation (the form Python uses
\* from 1e-4 up to 1e16); text is quoted with ' (text without quotes or
\* backslashes).
py_repr(v) ==
    CASE v.kind = "null" -> NoneText
      [] v.kind = "ellipsis" -> <<"E", "l", "l", "i", "p", "s", "i", "s">>
      [] v.kind = "bool" -> IF v.n = 1 THEN <<"T", "r", "u", "e">>
                                       ELSE <<"F", "a", "l", "s", "e">>
      [] v.kind = "int" -> IF v.n < 0 THEN <<"-">> \o NatDigits(0 - v.n) ELSE NatDigits(v.n)
      [] v.kind = "float" ->
            LET m == IF v.n < 0 THEN 0 - v.n ELSE v.n
                sign == IF v.n < 0 \/ v.text = <<"-">> THEN <<"-">> ELSE <<>>
            IN  sign \o NatDigits(m \div Pow10(v.d)) \o <<".">> \o
                (IF v.d = 0 THEN <<"0">> ELSE FracDigits(m % Pow10(v.d), v.d))
      [] v.kind = "str" -> <<"'">> \o v.text \o <<"'">>
      [] v.kind = "list" -> <<"[">> \o JoinRepr(v.items, 1) \o <<"]">>
      [] v.kind = "tuple" ->
            IF Len(v.items) = 1 THEN <<"(">> \o py_repr(v.items[1]) \o <<",", ")">>
            ELSE <<"(">> \o JoinRepr(v.items, 1) \o <<")">>

\* str(v): text is itself, anything else is its repr
py_str(v) == IF v.kind = "str" THEN v.text ELSE py_repr(v)

\* ------------------------------------------------------------------ the catalog
\* cipher_params as written in the source: for each cipher name its parameters
\* in order, each with its default.
Catalog ==
    [
      Atbash |->
        <<>>,
      SimpleSubstitution |->
        <<[name |-> "key", default |-> StrV(<<"A", "J", "P", "C", "Z", "W", "R", "L", "F", "B", "D", "K", "O", "T", "Y", "U", "Q", "G", "E", "N", "H", "X", "M", "I", "V", "S">>)]>>,
      Caesar |->
        <<[name |-> "key", default |-> IntV(13)]>>,
      Affine |->
        <<[name |-> "a", default |-> IntV(5)],
          [name |-> "b", default |-> IntV(9)]>>,
      Autokey |->
        <<[name |-> "key", default |-> StrV(<<"F", "O", "R", "T", "I", "F", "I", "C", "A", "T", "I", "O", "N">>)]>>,
      Beaufort |->
        <<[name |-> "key", default |-> StrV(<<"F", "O", "R", "T", "I", "F", "I", "C", "A", "T", "I", "O", "N">>)]>>,
      Bifid |->
        <<[name |-> "key", default |-> StrV(<<"p", "h", "q", "g", "m", "e", "a", "y", "l", "n", "o", "f", "d", "x", "k", "r", "c", "v", "s", "z", "w", "b", "u", "t", "i">>)],
          [name |-> "period", default |-> IntV(5)]>>,
      ColTrans |->
        <<[name |-> "keyword", default |-> StrV(<<"G", "E", "R", "M", "A", "N">>)]>>,
      Gronsfeld |->
        <<[name |-> "key", default |-> StrV(<<"[", "5", ",", " ", "4", ",", " ", "7", ",", " ", "9", "]">>)]>>,
      Foursquare |->
        <<[name |-> "key1", default |-> StrV(<<"z", "g", "p", "t", "f", "o", "i", "h", "m", "u", "w", "d", "r", "c", "n", "y", "k", "e", "q", "a", "x", "v", "s", "b", "l">>)],
          [name |-> "key2", default |-> StrV(<<"m", "f", "n", "b", "d", "c", "r", "h", "s", "a", "x", "y", "o", "g", "v", "i", "t", "u", "e", "w", "l", "q", "z", "k", "p">>)]>>,
      PolybiusSquare |->
        <<[name |-> "key", default |-> StrV(<<"p", "h", "q", "g", "i", "u", "m", "e", "a", "y", "l", "n", "o", "f", "d", "x", "k", "r", "c", "v", "s", "t", "z", "w", "b">>)],
          [name |-> "size", default |-> IntV(5)]>>,
      Playfair |->
        <<[name |-> "key", default |-> StrV(<<"A", "B", "C", "D", "E", "F", "G", "H", "I", "K", "L", "M", "N", "O", "P", "Q", "R", "S", "T", "U", "V", "W", "X", "Y", "Z">>)]>>,
      Vigenere |->
        <<[name |-> "key", default |-> StrV(<<"f", "o", "r", "t", "i", "f", "i", "c", "a", "t", "i", "o", "n">>)]>>,
      Rot13 |->
        <<>>,
      Railfence |->
        <<[name |-> "key", default |-> IntV(5)]>>
    ]

\* sorted(cipher_params.keys()), the options of the two select boxes
SortedCipherNames ==
    <<"Affine", "Atbash", "Autokey", "Beaufort", "Bifid", "Caesar", "ColTrans",
      "Foursquare", "Gronsfeld", "Playfair", "PolybiusSquare", "Railfence", "Rot13",
      "SimpleSubstitution", "Vigenere">>

\* the parameter names of a catalog entry
ParamNames(entry) == {entry[i].name : i \in DOMAIN entry}

\* the default of parameter p in a catalog entry
DefaultOf(entry, p) == entry[CHOOSE i \in DOMAIN entry : entry[i].name = p].default

\* ------------------------------------------------------------------ the cipher library
\* The classes of the pycipher module that the page reaches through
\* getattr / inspect.signature / cipher_class(**valid_inputs) and through
\* encipher / decipher. The classes modelled are those of ModelledCiphers;
\* the names a cipher can be selected by are bounded to them.
ModelledCiphers == {"Affine", "Atbash", "Caesar", "Playfair", "Rot13"}

\* inspect.signature(cipher_class.__init__).parameters, self included
Signature(cls) ==
    CASE cls = "Atbash" -> <<"self">>
      [] cls = "Rot13" -> <<"self">>
      [] cls = "Caesar" -> <<"self", "key">>
      [] cls = "Affine" -> <<"self", "a", "b">>
      [] cls = "Playfair" -> <<"self", "key">>

\* A cipher object; the fields a class does not have are None / 0.
Instance(c, k, ma, mb, inv) == [cls |-> c, key |-> k, a |-> ma, b |-> mb, inva |-> inv]

\* Python's None where an instance is expected
NoInstance == Instance("None", NoneV, NoneV, NoneV, 0)

Constructed(obj) == [raised |-> FALSE, exc |-> "none", msg |-> "", obj |-> obj]
ConstructFails(e, m) == [raised |-> TRUE, exc |-> e, msg |-> m, obj |-> NoInstance]

IsIntLike(v) == v.kind \in {"int", "bool"}

\* Caesar.__init__(self, key=13): self.key = key % 26
CaesarInit(key) ==
    IF IsIntLike(key) THEN Constructed(Instance("Caesar", IntV(key.n % 26), NoneV, NoneV, 0))
    ELSE IF key.kind = "float"
         THEN Constructed(Instance("Caesar", NormFloat(key.n % (26 * Pow10(key.d)), key.d),
                                   NoneV, NoneV, 0))
    ELSE IF key.kind = "str"
         THEN ConstructFails("TypeError", "not all arguments converted during string formatting")
    ELSE ConstructFails("TypeError", "unsupported operand type(s) for %")

\* the odd i below 26 with (a * i) % 26 == 1, for a = m / 10^dec
AffineInverses(m, dec) ==
    {i \in 1..25 : i % 2 = 1 /\ (m * i) % (26 * Pow10(dec)) = Pow10(dec)}

\* Affine.__init__(self, a=5, b=9): keeps a and b, searches the inverse of a
\* modulo 26 and asserts that there is one.
AffineWith(a, b, invs) ==
    IF invs = {}
    THEN ConstructFails("AssertionError", "invalid key: no inverse exists (mod 26)")
    ELSE Constructed(Instance("Affine", NoneV, a, b, CHOOSE i \in invs : TRUE))

AffineInit(a, b) ==
    IF IsIntLike(a) \/ a.kind = "float" THEN AffineWith(a, b, AffineInverses(a.n, a.d))
    ELSE IF a.kind = "str"
         THEN ConstructFails("TypeError", "not all arguments converted during string formatting")
    ELSE ConstructFails("TypeError", "unsupported operand type(s)")

\* c.upper() for one character
Upper(c) ==
    IF c \in Range(LowerLetters)
    THEN UpperLetters[CHOOSE i \in DOMAIN LowerLetters : LowerLetters[i] = c]
    ELSE c

MapSeq(s, Op(_)) == [i \in 1..Len(s) |-> Op(s[i])]

IsUpperLetter(c) == c \in Range(UpperLetters)

\* Playfair.__init__(self, key='ABCDEFGHIKLMNOPQRSTUVWXYZ'): asserts 25
\* characters and keeps them in upper case.
PlayfairInit(key) ==
    IF key.kind = "str"
    THEN IF Len(key.text) = 25
         THEN Constructed(Instance("Playfair", StrV(MapSeq(key.text, Upper)), NoneV, NoneV, 0))
         ELSE ConstructFails("AssertionError", "")
    ELSE IF key.kind \in {"list", "tuple"}
         THEN IF Len(key.items) # 25 THEN ConstructFails("AssertionError", "")
              ELSE IF \A i \in DOMAIN key.items : key.items[i].kind = "str"
                        /\ Len(key.items[i].text) = 1
                   THEN Constructed(Instance("Playfair",
                            StrV([i \in 1..25 |-> Upper(key.items[i].text[1])]), NoneV, NoneV, 0))
                   ELSE ConstructFails("AttributeError", "object has no attribute 'upper'")
    ELSE ConstructFails("TypeError", "object has no len()")

AtbashKey == [i \in 1..26 |-> UpperLetters[27 - i]]
Rot13Key == [i \in 1..26 |-> UpperLetters[((i + 12) % 26) + 1]]

KwArg(kwargs, name, default) == IF name \in DOMAIN kwargs THEN kwargs[name] ELSE default

\* cipher_class(**kwargs): a keyword that is no parameter of __init__, or that
\* names self, is a TypeError; otherwise the class's __init__ runs with its
\* own defaults for the parameters left out.
Construct(cls, kwargs) ==
    IF ~(DOMAIN kwargs \subseteq (Range(Signature(cls)) \ {"self"}))
    THEN ConstructFails("TypeError", "unexpected keyword argument")
    ELSE CASE cls = "Atbash" -> Constructed(Instance("Atbash", StrV(AtbashKey), NoneV, NoneV, 0))
           [] cls = "Rot13" -> Constructed(Instance("Rot13", StrV(Rot13Key), NoneV, NoneV, 0))
           [] cls = "Caesar" -> CaesarInit(KwArg(kwargs, "key", IntV(13)))
           [] cls = "Affine" -> AffineInit(KwArg(kwargs, "a", IntV(5)), KwArg(kwargs, "b", IntV(9)))
           [] cls = "Playfair" -> PlayfairInit(KwArg(kwargs, "key", StrV(Catalog.Playfair[1].default.text)))

\* Cipher.a2i / Cipher.i2a
a2i(ch) == (CHOOSE i \in DOMAIN UpperLetters : UpperLetters[i] = Upper(ch)) - 1
i2a(i) == UpperLetters[(i % 26) + 1]

\* Cipher.remove_punctuation: upper case, then everything but A-Z removed
remove_punctuation(text) == SelectSeq(MapSeq(text, Upper), IsUpperLetter)

\* position of c in a Playfair key (list.index), -1 when absent
KeyIndex(key, c) ==
    IF c \in Range(key) THEN (CHOOSE i \in DOMAIN key : key[i] = c
                                 /\ \A j \in DOMAIN key : key[j] = c => i <= j) - 1
    ELSE 0 - 1

\* Playfair.encipher_pair (dir = 1) and decipher_pair (dir = -1) on the
\* letters a, b: <<>> when a letter is not in the key.
PairAt(key, arow, acol, brow, bcol, dir) ==
    IF arow = brow
    THEN <<key[arow * 5 + ((acol + dir) % 5) + 1], key[brow * 5 + ((bcol + dir) % 5) + 1]>>
    ELSE IF acol = bcol
    THEN <<key[((arow + dir) % 5) * 5 + acol + 1], key[((brow + dir) % 5) * 5 + bcol + 1]>>
    ELSE <<key[arow * 5 + bcol + 1], key[brow * 5 + acol + 1]>>

PairOfIndex(key, ia, ib, dir) ==
    IF ia < 0 \/ ib < 0 THEN <<>>
    ELSE PairAt(key, ia \div 5, ia % 5, ib \div 5, ib % 5, dir)

PlayfairPair(key, a, b, dir) == PairOfIndex(key, KeyIndex(key, a), KeyIndex(key, b), dir)

\* the pairs of s from position i on, enciphered or deciphered
RECURSIVE PlayfairPairs(_, _, _, _)

\* the transformed pair followed by the transformed rest
PairThenRest(pair, rest) ==
    IF rest.raised THEN rest ELSE Return(StrV(pair \o rest.val.text))

\* the pair a, b at position i: decipher_pair asserts a # b; a letter that is
\* not in the key is a ValueError of list.index
PairsFrom(key, s, i, dir, a, b, pair) ==
    IF dir # 1 /\ a = b THEN Raise("AssertionError")
    ELSE IF pair = <<>> THEN Raise("ValueError")
    ELSE PairThenRest(pair, PlayfairPairs(key, s, i + 2, dir))

\* encipher_pair replaces b by X when it repeats a
SecondOfPair(a, b, dir) == IF dir = 1 /\ b = a THEN "X" ELSE b

PairsAt(key, s, i, dir, a, b) == PairsFrom(key, s, i, dir, a, b, PlayfairPair(key, a, b, dir))

PlayfairPairs(key, s, i, dir) ==
    IF i > Len(s) THEN Return(StrV(<<>>))
    ELSE PairsAt(key, s, i, dir, s[i], SecondOfPair(s[i], s[i + 1], dir))

ReplaceJ(c) == IF c = "J" THEN "I" ELSE c

PadOdd(s) == IF Len(s) % 2 = 1 THEN Append(s, "X") ELSE s

\* A letter-by-letter transform with the integer keys it needs: a TypeError
\* on the first letter when a key is no integer.
LetterWise(string, keysAreInt, Op(_)) ==
    IF string = <<>> THEN Return(StrV(<<>>))
    ELSE IF ~keysAreInt THEN Raise("TypeError")
    ELSE Return(StrV(MapSeq(string, Op)))

\* cipher_obj.encipher(text), by class
EncipherString(obj, string) ==
    LET CaesarOp(c) == i2a(a2i(c) + obj.key.n)
        AffineOp(c) == i2a(obj.a.n * a2i(c) + obj.b.n)
        KeyOp(c) == obj.key.text[a2i(c) + 1]
    IN  CASE obj.cls = "Caesar" -> LetterWise(string, obj.key.kind = "int", CaesarOp)
          [] obj.cls = "Affine" -> LetterWise(string, IsIntLike(obj.a) /\ IsIntLike(obj.b), AffineOp)
          [] obj.cls \in {"Atbash", "Rot13"} -> LetterWise(string, TRUE, KeyOp)
          [] obj.cls = "Playfair" ->
                PlayfairPairs(obj.key.text, PadOdd(MapSeq(string, ReplaceJ)), 1, 1)

encipher(obj, text) == EncipherString(obj, remove_punctuation(text))

\* cipher_obj.decipher(text), by class
DecipherString(obj, string) ==
    LET CaesarOp(c) == i2a(a2i(c) - obj.key.n)
        AffineOp(c) == i2a(obj.inva * (a2i(c) - obj.b.n))
        KeyOp(c) == obj.key.text[a2i(c) + 1]
    IN  CASE obj.cls = "Caesar" -> LetterWise(string, obj.key.kind = "int", CaesarOp)
          [] obj.cls = "Affine" -> LetterWise(string, IsIntLike(obj.b), AffineOp)
          [] obj.cls \in {"Atbash", "Rot13"} -> LetterWise(string, TRUE, KeyOp)
          [] obj.cls = "Playfair" -> PlayfairPairs(obj.key.text, PadOdd(string), 1, 0 - 1)

decipher(obj, text) == DecipherString(obj, remove_punctuation(text))

\* ------------------------------------------------------------------ what the page shows
\* An element written to the page: st.error (kind "error", diag the message of
\* the exception) or st.success (kind "success", body the result text).
Elem(k, l, m, t) == [kind |-> k, label |-> l, diag |-> m, body |-> t]

\* ------------------------------------------------------------------ safe_cipher_instance
\* getattr(pycipher, cipher_name) finds a class
HasCipherClass(cipher_name) == cipher_name \in DOMAIN Catalog

Restrict(f, keys) == [k \in (DOMAIN f) \cap keys |-> f[k]]

\* What a call of safe_cipher_instance did: whether an exception escaped it,
\* the object returned, the elements it showed, whether it reached the
\* constructor and with which keyword arguments.
SciResult(esc, o, els, called, kwargs) ==
    [raised |-> esc, obj |-> o, shown |-> els, reached |-> called, forwarded |-> kwargs]

CreateError(m) == Elem("error", "Error creating cipher instance", m, <<>>)

\* the except branch returning None without st.error
AfterConstructSilent(c, valid_inputs) ==
    IF c.raised
    THEN SciResult(FALSE, NoInstance, <<>>, TRUE, valid_inputs)
    ELSE SciResult(FALSE, c.obj, <<>>, TRUE, valid_inputs)

\* the return announcing every instance it built (an st.info on success)
AfterConstructNoisy(c, valid_inputs) ==
    IF c.raised
    THEN SciResult(FALSE, NoInstance, <<CreateError(c.msg)>>, TRUE, valid_inputs)
    ELSE SciResult(FALSE, c.obj, <<Elem("info", "Cipher instance created", "", <<>>)>>, TRUE,
                   valid_inputs)

\* the return (or the except branch) after the constructor call c
AfterConstruct(c, valid_inputs) ==
    IF c.raised
    THEN SciResult(FALSE, NoInstance, <<CreateError(c.msg)>>, TRUE, valid_inputs)
    ELSE SciResult(FALSE, c.obj, <<>>, TRUE, valid_inputs)

\* the same with no except branch
AfterConstructUncaught(c, valid_inputs) ==
    IF c.raised
    THEN SciResult(TRUE, NoInstance, <<>>, TRUE, valid_inputs)
    ELSE SciResult(FALSE, c.obj, <<>>, TRUE, valid_inputs)

\* cipher_class(**valid_inputs) inside the try
ConstructWith(cipher_name, valid_inputs) ==
    AfterConstruct(Construct(cipher_name, valid_inputs), valid_inputs)

ConstructWithUncaught(cipher_name, valid_inputs) ==
    AfterConstructUncaught(Construct(cipher_name, valid_inputs), valid_inputs)

\* safe_cipher_instance with valid_inputs = user_inputs (no filter on the signature)
safe_cipher_instance_unfiltered(cipher_name, user_inputs) ==
    IF ~HasCipherClass(cipher_name)
    THEN SciResult(FALSE, NoInstance, <<CreateError("module 'pycipher' has no attribute")>>,
                   FALSE, <<>>)
    ELSE ConstructWith(cipher_name, user_inputs)

\* safe_cipher_instance without its try / except
safe_cipher_instance_uncaught(cipher_name, user_inputs) ==
    IF ~HasCipherClass(cipher_name)
    THEN SciResult(TRUE, NoInstance, <<>>, FALSE, <<>>)
    ELSE ConstructWithUncaught(cipher_name,
                               Restrict(user_inputs, Range(Signature(cipher_name))))

\* safe_cipher_instance looking the class up under a name the library does not have
safe_cipher_instance_wrong_lookup(cipher_name, user_inputs) ==
    SciResult(FALSE, NoInstance, <<CreateError("module 'pycipher' has no attribute")>>,
              FALSE, <<>>)

safe_cipher_instance(cipher_name, user_inputs) ==
    IF ~HasCipherClass(cipher_name)
    THEN SciResult(FALSE, NoInstance, <<CreateError("module 'pycipher' has no attribute")>>,
                   FALSE, <<>>)
    ELSE ConstructWith(cipher_name, Restrict(user_inputs, Range(Signature(cipher_name))))

\* ------------------------------------------------------------------ the two handlers of main
\* text.strip(): leading and trailing blanks removed
RECURSIVE rstrip(_)
rstrip(t) == IF t # <<>> /\ t[Len(t)] = " " THEN rstrip(SubSeq(t, 1, Len(t) - 1)) ELSE t

strip(t) == rstrip(SubSeq(t, SkipBlanks(t, 1), Len(t)))

\* One step of a request, in the order made.
StepInstantiate(name, inputs) == [fn |-> "safe_cipher_instance", cipher |-> name,
                                  inputs |-> inputs, text |-> <<>>]
StepTransform(mode, name, t) == [fn |-> mode, cipher |-> name, inputs |-> <<>>, text |-> t]

\* What a handler did: the elements shown, the calls made, and whether an
\* exception escaped it.
Handled(els, steps, esc) == [out |-> els, calls |-> steps, raised |-> esc]

\* the transform called outside any try: its exception escapes the handler
AfterTransformUncaught(r, shown, steps, symbol, failLabel) ==
    IF r.raised
    THEN Handled(shown, steps, TRUE)
    ELSE Handled(shown \o <<Elem("success", symbol, "", r.val.text)>>, steps, FALSE)

\* try: result = transform(...); st.success(...) / except: st.error(...)
AfterTransform(r, shown, steps, symbol, failLabel) ==
    IF r.raised
    THEN Handled(shown \o <<Elem("error", failLabel, r.exc, <<>>)>>, steps, FALSE)
    ELSE Handled(shown \o <<Elem("success", symbol, "", r.val.text)>>, steps, FALSE)

\* if cipher_obj: ... on what safe_cipher_instance returned
AfterInstance(made, name, inputs, t, mode, Transform(_, _), symbol, failLabel) ==
    IF made.raised THEN Handled(made.shown, <<StepInstantiate(name, inputs)>>, TRUE)
    ELSE IF made.obj = NoInstance
         THEN Handled(made.shown, <<StepInstantiate(name, inputs)>>, FALSE)
    ELSE AfterTransform(Transform(made.obj, t), made.shown,
                        <<StepInstantiate(name, inputs), StepTransform(mode, name, t)>>,
                        symbol, failLabel)

\* The body of "if st.button(...)": instantiate, and on an object apply
\* transform to the trimmed text, showing its result or its failure.
HandleWith(name, inputs, text, mode, Transform(_, _), symbol, failLabel) ==
    AfterInstance(safe_cipher_instance(name, inputs), name, inputs, strip(text), mode,
                  Transform, symbol, failLabel)

\* the Decipher handler calling encipher
decipher_handler_calls_encipher(cipher_name, dec_inputs, dec_text) ==
    HandleWith(cipher_name, dec_inputs, dec_text, "encipher", encipher, "Result (decipher)",
               "Decipher Failed")

\* the Encipher handler without "if cipher_obj:": the transform is called on
\* whatever safe_cipher_instance returned, None included
encipher_handler_unguarded(cipher_name, enc_inputs, enc_text) ==
    IF safe_cipher_instance(cipher_name, enc_inputs).obj = NoInstance
    THEN Handled(safe_cipher_instance(cipher_name, enc_inputs).shown
                     \o <<Elem("error", "Encipher Failed",
                                "'NoneType' object has no attribute 'encipher'", <<>>)>>,
                 <<StepInstantiate(cipher_name, enc_inputs),
                   StepTransform("encipher", cipher_name, strip(enc_text))>>, FALSE)
    ELSE HandleWith(cipher_name, enc_inputs, enc_text, "encipher", encipher,
                    "Result (encipher)", "Encipher Failed")

\* the Encipher handler showing the text it was given instead of the result
encipher_handler_shows_input(cipher_name, enc_inputs, enc_text) ==
    LET Echo(obj, t) == Return(StrV(t))
    IN  HandleWith(cipher_name, enc_inputs, enc_text, "encipher", Echo, "Result (encipher)",
                   "Encipher Failed")

\* the Encipher handler passing enc_text as typed (no .strip())
encipher_handler_untrimmed(cipher_name, enc_inputs, enc_text) ==
    AfterInstance(safe_cipher_instance(cipher_name, enc_inputs), cipher_name, enc_inputs,
                  enc_text, "encipher", encipher, "Result (encipher)", "Encipher Failed")

\* lines 101-108
encipher_handler(cipher_name, enc_inputs, enc_text) ==
    HandleWith(cipher_name, enc_inputs, enc_text, "encipher", encipher, "Result (encipher)",
               "Encipher Failed")

\* lines 111-118
decipher_handler(cipher_name, dec_inputs, dec_text) ==
    HandleWith(cipher_name, dec_inputs, dec_text, "decipher", decipher, "Result (decipher)",
               "Decipher Failed")

\* ------------------------------------------------------------------ build_param_ui
\* the text a parameter's input is pre-filled with (lines 45 and 48)
StrOrEmpty(parsed_default) ==
    IF parsed_default # NoneV THEN py_str(parsed_default) ELSE <<>>

default_str(default_val) == StrOrEmpty(parse_param(default_val).val)

\* build_param_ui passing None for a parameter whose box is not ticked
build_param_ui_none_when_off(cipher_name, use_param, user_input) ==
    [p \in ParamNames(cipher_params[cipher_name]) |->
        IF use_param[p] THEN parse_param(StrV(user_input[p])).val ELSE NoneV]

\* build_param_ui leaving out a ticked parameter whose text parses to None
build_param_ui_drops_null(cipher_name, use_param, user_input) ==
    [p \in {q \in ParamNames(cipher_params[cipher_name]) :
               use_param[q] /\ parse_param(StrV(user_input[q])).val # NoneV} |->
        parse_param(StrV(user_input[p])).val]

\* build_param_ui(cipher_name, section_prefix), given the values the section's
\* check boxes (use_param) and text inputs (user_input) return: the parsed
\* text of every parameter whose box is ticked.
build_param_ui(cipher_name, use_param, user_input) ==
    [p \in {q \in ParamNames(cipher_params[cipher_name]) : use_param[q]} |->
        parse_param(StrV(user_input[p])).val]

\* ------------------------------------------------------------------ the page
Sections == {"enc", "dec"}

\* the ciphers a user of the model selects
SelectableCiphers == ModelledCiphers

\* the texts a user of the model types into a parameter's input
ParamTexts(cipher_name, p) ==
    CASE cipher_name = "Caesar" ->
            {<<"1", "3">>, <<" ", "1", "3">>, <<"2", ".", "5">>, <<>>, NoneText}
      [] cipher_name = "Affine" /\ p = "a" -> {<<"5">>, <<"2">>}
      [] cipher_name = "Affine" /\ p = "b" -> {<<"9">>}
      [] OTHER -> {default_str(DefaultOf(cipher_params[cipher_name], p))}

\* the texts a user of the model types into a text area
TextInputs ==
    {<<>>, <<"H", "E", "L", "L", "O">>, <<"U", "R", "Y", "Y", "B">>,
     <<" ", "H", "E", "L", "L", "O", " ">>}

\* the state of a section's parameter widgets when they are first rendered
\* for a cipher: every box ticked (value=True), every input pre-filled
FreshChk(cipher_name) == [p \in ParamNames(cipher_params[cipher_name]) |-> TRUE]
FreshInp(cipher_name) ==
    [p \in ParamNames(cipher_params[cipher_name]) |->
        default_str(DefaultOf(cipher_params[cipher_name], p))]

\* no function is under examination
NoProbe == [fn |-> "none"]

\* the call under examination has not returned yet / has returned r
Pending == [done |-> FALSE, res |-> <<>>]
Returned(r) == [done |-> TRUE, res |-> r]

\* the user sessions that run the page side by side
Users == {"u1", "u2"}

\* A request: the button pressed (mode), and what the widgets of its section
\* hold in that run: the cipher, the ticks, the parameter texts and the text.
Request(mode, name, use, raw, t) ==
    [mode |-> mode, name |-> name, use |-> use, raw |-> raw, text |-> t]

NoRequest == Request("none", "none", <<>>, <<>>, <<>>)

\* no instance has been asked for in this run
NoMade == SciResult(FALSE, NoInstance, <<>>, FALSE, <<>>)

\* what a run of the script left behind when it ended
Run(req, els, steps, esc) == [req |-> req, out |-> els, calls |-> steps, fatal |-> esc]
NoRun == Run(NoRequest, <<>>, <<>>, FALSE)

\* A session: where its run of the script is (idle: no run in progress),
\* the request of the run, the locals enc_inputs / dec_inputs and cipher_obj,
\* the elements shown and calls made so far, and the run before this one.
Session(pc, req, inputs, made, els, steps, last) ==
    [pc |-> pc, req |-> req, inputs |-> inputs, made |-> made, out |-> els, calls |-> steps,
     last |-> last]

IdleSession(last) == Session("idle", NoRequest, <<>>, NoMade, <<>>, <<>>, last)

\* st.session_state with no key set by the padding and hash pages
NoKeys == [k \in {} |-> NoneV]

\* The page as first rendered: both select boxes on the first sorted name,
\* "HELLO" to encipher, nothing to decipher, no button pressed; no session
\* has a run in progress.
PageInit ==
    /\ selected = [s \in Sections |-> SortedCipherNames[1]]
    /\ chk = [s \in Sections |-> FreshChk(SortedCipherNames[1])]
    /\ inp = [s \in Sections |-> FreshInp(SortedCipherNames[1])]
    /\ text_area = [s \in Sections |-> IF s = "enc" THEN <<"H", "E", "L", "L", "O">> ELSE <<>>]
    /\ clicked = "none"
    /\ out = <<>>
    /\ calls = <<>>
    /\ sessions = [u \in Users |-> IdleSession(NoRun)]
    /\ session_state = NoKeys

Init ==
    /\ cipher_params = Catalog
    /\ py_lstrip \in BOOLEAN
    /\ probe = NoProbe
    /\ ret = Pending
    /\ PageInit

\* The user picks another cipher in a section; the script reruns, the
\* parameter widgets of the cipher left are no longer rendered and those of
\* the cipher picked are rendered fresh.
SelectCipher(s, c) ==
    /\ c # selected[s]
    /\ selected' = [selected EXCEPT ![s] = c]
    /\ chk' = [chk EXCEPT ![s] = FreshChk(c)]
    /\ inp' = [inp EXCEPT ![s] = FreshInp(c)]
    /\ clicked' = "none"
    /\ out' = <<>>
    /\ calls' = <<>>
    /\ UNCHANGED <<cipher_params, py_lstrip, sessions, session_state, probe, ret, text_area>>

\* The user ticks or unticks "Use p?"; the script reruns and the text input
\* of p is rendered (fresh) only when the box is ticked.
ToggleParam(s, p) ==
    /\ p \in DOMAIN chk[s]
    /\ chk' = [chk EXCEPT ![s][p] = ~chk[s][p]]
    /\ inp' = [inp EXCEPT ![s][p] =
                  IF chk[s][p] THEN <<>>
                  ELSE default_str(DefaultOf(cipher_params[selected[s]], p))]
    /\ clicked' = "none"
    /\ out' = <<>>
    /\ calls' = <<>>
    /\ UNCHANGED <<cipher_params, py_lstrip, sessions, session_state, probe, ret, selected, text_area>>

\* EditParam with build_param_ui writing the parsed text back into the
\* catalog entry (params[p] = parse_param(user_input))
EditParamStoring(s, p, t) ==
    /\ p \in DOMAIN chk[s]
    /\ chk[s][p]
    /\ t \in ParamTexts(selected[s], p)
    /\ t # inp[s][p]
    /\ inp' = [inp EXCEPT ![s][p] = t]
    /\ cipher_params' =
          [cipher_params EXCEPT ![selected[s]] =
              [i \in DOMAIN @ |->
                  IF @[i].name = p
                  THEN [name |-> p, default |-> parse_param(StrV(t)).val]
                  ELSE @[i]]]
    /\ clicked' = "none"
    /\ out' = <<>>
    /\ calls' = <<>>
    /\ UNCHANGED <<py_lstrip, sessions, session_state, probe, ret, selected, chk, text_area>>

\* EditParam with the input keyed without the section prefix
\* (key=f"inp_{cipher_name}_{p}"): the sections showing the same cipher
\* share the input of p
EditParamShared(s, p, t) ==
    /\ p \in DOMAIN chk[s]
    /\ chk[s][p]
    /\ t \in ParamTexts(selected[s], p)
    /\ t # inp[s][p]
    /\ inp' = [o \in DOMAIN inp |->
                  IF o = s \/ (selected[o] = selected[s] /\ chk[o][p])
                  THEN [inp[o] EXCEPT ![p] = t]
                  ELSE inp[o]]
    /\ clicked' = "none"
    /\ out' = <<>>
    /\ calls' = <<>>
    /\ UNCHANGED <<cipher_params, py_lstrip, sessions, session_state, probe, ret, selected, chk,
                   text_area>>

\* The user types t into the input of an enabled parameter; the script reruns.
EditParam(s, p, t) ==
    /\ p \in DOMAIN chk[s]
    /\ chk[s][p]
    /\ t \in ParamTexts(selected[s], p)
    /\ t # inp[s][p]
    /\ inp' = [inp EXCEPT ![s][p] = t]
    /\ clicked' = "none"
    /\ out' = <<>>
    /\ calls' = <<>>
    /\ UNCHANGED <<cipher_params, py_lstrip, sessions, session_state, probe, ret, selected, chk, text_area>>

\* The user types t into a section's text area; the script reruns.
EditText(s, t) ==
    /\ t # text_area[s]
    /\ text_area' = [text_area EXCEPT ![s] = t]
    /\ clicked' = "none"
    /\ out' = <<>>
    /\ calls' = <<>>
    /\ UNCHANGED <<cipher_params, py_lstrip, sessions, session_state, probe, ret, selected, chk, inp>>

\* enc_inputs / dec_inputs of the current run (lines 78 and 95)
SectionInputs(s) == build_param_ui(selected[s], chk[s], inp[s])

\* The user presses Encipher: the script reruns with enc_btn true.
ClickEncipher ==
    LET h == encipher_handler(selected["enc"], SectionInputs("enc"), text_area["enc"])
    IN  /\ clicked' = "enc"
        /\ out' = h.out
        /\ calls' = h.calls
        /\ UNCHANGED <<cipher_params, py_lstrip, sessions, session_state, probe, ret, widgets>>

\* The user presses Decipher: the script reruns with dec_btn true.
ClickDecipher ==
    LET h == decipher_handler(selected["dec"], SectionInputs("dec"), text_area["dec"])
    IN  /\ clicked' = "dec"
        /\ out' = h.out
        /\ calls' = h.calls
        /\ UNCHANGED <<cipher_params, py_lstrip, sessions, session_state, probe, ret, widgets>>

Next ==
    \/ \E s \in Sections, c \in SelectableCiphers : SelectCipher(s, c)
    \/ \E s \in Sections : \E p \in DOMAIN chk[s] : ToggleParam(s, p)
    \/ \E s \in Sections : \E p \in DOMAIN chk[s] :
          \E t \in ParamTexts(selected[s], p) : EditParam(s, p, t)
    \/ \E s \in Sections, t \in TextInputs : EditText(s, t)
    \/ ClickEncipher
    \/ ClickDecipher

Spec == Init /\ [][Next]_vars

\* ------------------------------------------------------------------ the functions on their own
\* The functions of the page called with arguments drawn from bounded sets;
\* probe holds the call and ret what it returned.

\* the characters of the raw texts enumerated exhaustively
ProbeChars == {"0", "1", "3", "[", "]", ",", " ", "-", "."}

RECURSIVE TextsUpTo(_, _)
TextsUpTo(chars, n) ==
    IF n = 0 THEN {<<>>}
    ELSE LET shorter == TextsUpTo(chars, n - 1)
         IN  shorter \cup {Append(t, c) : t \in shorter, c \in chars}

\* the text defaults of the catalog
CatalogTexts ==
    UNION {{Catalog[c][i].default.text : i \in DOMAIN Catalog[c]} : c \in DOMAIN Catalog}
        \ {<<>>}

NotALiteral ==
    <<"n", "o", "t", " ", "a", " ", "l", "i", "t", "e", "r", "a", "l", " ", "{", "{", "{">>

GronsfeldKey == <<"[", "5", ",", " ", "4", ",", " ", "7", ",", " ", "9", "]">>

\* raw texts beyond the exhaustive ones
CuratedTexts ==
    {NoneText, <<"1", "3">>, GronsfeldKey, NotALiteral,
     <<" ", "N", "o", "n", "e">>, <<"T", "r", "u", "e">>,
     <<"[", "[", "[", "[", "1", "]", "]", "]", "]">>, <<"2", ".", "5">>}

\* the values parse_param is called with: texts, None, and an integer default
RawValues ==
    {StrV(t) : t \in TextsUpTo(ProbeChars, MaxRawLen) \cup CuratedTexts \cup CatalogTexts}
        \cup {NoneV, IntV(13)}

InitParse ==
    /\ cipher_params = Catalog
    /\ py_lstrip \in BOOLEAN
    /\ probe \in {[fn |-> "parse_param", val |-> v] : v \in RawValues}
    /\ ret = Pending
    /\ PageInit

CallParseParam ==
    /\ probe.fn = "parse_param"
    /\ ret = Pending
    /\ ret' = Returned(parse_param(probe.val))
    /\ UNCHANGED <<cipher_params, py_lstrip, sessions, session_state, probe, page>>

NextParse == CallParseParam

SpecParse == InitParse /\ [][NextParse]_vars

\* C1: parse_param is total: whatever value it is called with (any text, None,
\* a value that is no text), it returns a value and lets no exception escape.
C1_ParseParamTotal ==
    (probe.fn = "parse_param" /\ ret.done) => ~ret.res.raised

\* parse_param returned although the interpretation of its argument failed
C1_Witness ==
    /\ probe.fn = "parse_param" /\ ret.done
    /\ probe.val \notin {StrV(NoneText), NoneV, StrV(<<>>)}
    /\ literal_eval(probe.val).raised
    /\ ~ret.res.raised

\* C2: parse_param agrees with its reference: "", "None" and None give None;
\* a well-formed literal gives its value ("13" the integer 13, "[5, 4, 7, 9]"
\* the list 5, 4, 7, 9); any other text comes back unchanged.
C2_ParseParamReference ==
    (probe.fn = "parse_param" /\ ret.done) =>
        /\ probe.val \in {StrV(<<>>), StrV(NoneText), NoneV} => ret.res = Return(NoneV)
        /\ probe.val = StrV(<<"1", "3">>) => ret.res = Return(IntV(13))
        /\ probe.val = StrV(GronsfeldKey)
              => ret.res = Return(ListV(<<IntV(5), IntV(4), IntV(7), IntV(9)>>))
        /\ probe.val = StrV(NotALiteral) => ret.res = Return(StrV(NotALiteral))
        /\ (probe.val \notin {StrV(<<>>), StrV(NoneText), NoneV} /\ literal_eval(probe.val).raised)
              => ret.res = Return(probe.val)
        /\ (probe.val \notin {StrV(<<>>), StrV(NoneText), NoneV} /\ ~literal_eval(probe.val).raised)
              => ret.res = Return(literal_eval(probe.val).val)

\* the list text has been parsed into the list of its integers
C2_Witness ==
    /\ probe.fn = "parse_param" /\ ret.done
    /\ probe.val = StrV(GronsfeldKey)
    /\ ret.res.val.kind = "list"
    /\ Len(ret.res.val.items) = 4

\* ------------------------------------------------------------------ instantiation and transforms on their own
Hello == <<"H", "E", "L", "L", "O">>
Uryyb == <<"U", "R", "Y", "Y", "B">>
Svool == <<"S", "V", "O", "O", "L">>

\* cipher names to instantiate: the modelled classes and a name pycipher lacks
ProbeCipherNames == ModelledCiphers \cup {"NoSuchCipher"}

\* parameter mappings over recognised and unrecognised keys
ProbeKeys == {"key", "a", "b", "bogus", "self"}
ProbeArgs == {IntV(2), IntV(5), StrV(<<"x">>)}
ProbeInputs == UNION {[K -> ProbeArgs] : K \in SUBSET ProbeKeys}

\* integer parameter sets of the ciphers keyed by integers
IntKeys == {IntV(k) : k \in 0..MaxKey}
KeyedInputs ==
    [Affine |-> {[a |-> k] : k \in IntKeys} \cup {[a |-> k, b |-> IntV(9)] : k \in IntKeys},
     Caesar |-> {[key |-> k] : k \in IntKeys}]

\* the letters of the texts enumerated exhaustively
TextChars == {"E", "H", "L", "O"}
ProbeTexts == TextsUpTo(TextChars, MaxTextLen) \cup {Hello, Uryyb}

Probe(f, name, inputs, mode, t) ==
    [fn |-> f, cipher_name |-> name, user_inputs |-> inputs, mode |-> mode, text |-> t]

NoInputs == [k \in {} |-> NoneV]

InstantiateProbes ==
    {Probe("safe_cipher_instance", name, inputs, "none", <<>>) :
        name \in ProbeCipherNames, inputs \in ProbeInputs}

HandlerProbes ==
    UNION {{Probe("handler", name, inputs, mode, t) :
                inputs \in KeyedInputs[name], mode \in {"encipher", "decipher"},
                t \in {<<>>, Hello}} : name \in DOMAIN KeyedInputs}

RoundTripProbes ==
    {Probe("round_trip", name, NoInputs, "none", t) : name \in ModelledCiphers, t \in ProbeTexts}

InitCipher ==
    /\ cipher_params = Catalog
    /\ py_lstrip \in BOOLEAN
    /\ probe \in InstantiateProbes \cup HandlerProbes \cup RoundTripProbes
    /\ ret = Pending
    /\ PageInit

CallSafeCipherInstance ==
    /\ probe.fn = "safe_cipher_instance"
    /\ ret = Pending
    /\ ret' = Returned(safe_cipher_instance(probe.cipher_name, probe.user_inputs))
    /\ UNCHANGED <<cipher_params, py_lstrip, sessions, session_state, probe, page>>

CallHandler ==
    /\ probe.fn = "handler"
    /\ ret = Pending
    /\ ret' = Returned(IF probe.mode = "encipher"
                       THEN encipher_handler(probe.cipher_name, probe.user_inputs, probe.text)
                       ELSE decipher_handler(probe.cipher_name, probe.user_inputs, probe.text))
    /\ UNCHANGED <<cipher_params, py_lstrip, sessions, session_state, probe, page>>

\* the parameters of a cipher as the page builds them when nothing is edited
DefaultInputs(cipher_name) ==
    build_param_ui(cipher_name, FreshChk(cipher_name), FreshInp(cipher_name))

ShownSuccess(h) == Len(h.out) = 1 /\ h.out[1].kind = "success"

\* Decipher pressed on the text that Encipher (result enc) showed
DecipherShown(enc, cipher_name, inputs) ==
    [raised |-> FALSE, enc |-> enc,
     dec |-> IF ShownSuccess(enc) THEN decipher_handler(cipher_name, inputs, enc.out[1].body)
             ELSE enc]

\* Encipher on text, then Decipher on what it showed, same cipher and parameters
RoundTrip(cipher_name, inputs, text) ==
    DecipherShown(encipher_handler(cipher_name, inputs, text), cipher_name, inputs)

CallRoundTrip ==
    /\ probe.fn = "round_trip"
    /\ ret = Pending
    /\ ret' = Returned(RoundTrip(probe.cipher_name, DefaultInputs(probe.cipher_name), probe.text))
    /\ UNCHANGED <<cipher_params, py_lstrip, sessions, session_state, probe, page>>

NextCipher ==
    \/ CallSafeCipherInstance
    \/ CallHandler
    \/ CallRoundTrip

SpecCipher == InitCipher /\ [][NextCipher]_vars

\* ------------------------------------------------------------------ properties of instantiation
\* the parameter names safe_cipher_instance accepts for a class
Accepted(cipher_name) == Range(Signature(cipher_name))

\* user_inputs without the key k
Without(user_inputs, k) == Restrict(user_inputs, DOMAIN user_inputs \ {k})

\* what a caller of safe_cipher_instance observes
Outcome(r) == [raised |-> r.raised, obj |-> r.obj, shown |-> r.shown]

\* C3: safe_cipher_instance forwards to the constructor exactly the entries
\* whose key is a parameter name of the class's construction signature; any
\* other key is dropped without error, so the outcome with an unrecognized key
\* is the outcome without it.
C3_OnlySignatureKeysForwarded ==
    (probe.fn = "safe_cipher_instance" /\ ret.done /\ ret.res.reached) =>
        /\ ret.res.forwarded = Restrict(probe.user_inputs, Accepted(probe.cipher_name))
        /\ \A k \in DOMAIN probe.user_inputs \ Accepted(probe.cipher_name) :
              Outcome(ret.res)
                  = Outcome(safe_cipher_instance(probe.cipher_name, Without(probe.user_inputs, k)))

\* Caesar was built from a mapping with an unrecognized key beside its key
C3_Witness ==
    /\ probe.fn = "safe_cipher_instance" /\ ret.done
    /\ probe.cipher_name = "Caesar"
    /\ DOMAIN probe.user_inputs = {"key", "bogus"}
    /\ DOMAIN ret.res.forwarded = {"key"}
    /\ ret.res.obj # NoInstance
    /\ ret.res.shown = <<>>

\* the catalog entries that declare no parameters
NoParamCiphers == {c \in DOMAIN cipher_params : cipher_params[c] = <<>>}

\* C7: the ciphers whose catalog entry declares no parameters are Atbash and
\* Rot13, and safe_cipher_instance called for one of them with the empty
\* parameter set returns an instance, shows no error, and the instance
\* enciphers and deciphers.
C7_NoParamCiphersInstantiate ==
    /\ NoParamCiphers = {"Atbash", "Rot13"}
    /\ (/\ probe.fn = "safe_cipher_instance" /\ ret.done
        /\ probe.cipher_name \in NoParamCiphers
        /\ probe.user_inputs = NoInputs)
       => /\ ~ret.res.raised
          /\ ret.res.obj # NoInstance
          /\ ret.res.obj.cls = probe.cipher_name
          /\ ret.res.shown = <<>>
          /\ ~encipher(ret.res.obj, Hello).raised
          /\ ~decipher(ret.res.obj, Hello).raised

\* Rot13 was instantiated from the empty parameter set
C7_Witness ==
    /\ probe.fn = "safe_cipher_instance" /\ ret.done
    /\ probe.cipher_name = "Rot13"
    /\ probe.user_inputs = NoInputs
    /\ ret.res.obj.cls = "Rot13"

\* the instantiation of the call under examination fails: pycipher has no such
\* class, or the constructor raises on the arguments forwarded
InstantiationFails ==
    \/ ~HasCipherClass(probe.cipher_name)
    \/ Construct(probe.cipher_name,
                 Restrict(probe.user_inputs, Accepted(probe.cipher_name))).raised

\* the message of the exception of a failing instantiation
Diagnostic ==
    IF ~HasCipherClass(probe.cipher_name) THEN "module 'pycipher' has no attribute"
    ELSE Construct(probe.cipher_name,
                   Restrict(probe.user_inputs, Accepted(probe.cipher_name))).msg

\* C10: no exception escapes safe_cipher_instance; when instantiation fails
\* (unknown name, an argument of the wrong type, a key the cipher rejects) it
\* returns no instance and shows exactly one "Error creating cipher instance"
\* message carrying the exception's message; when it does not fail it returns
\* the instance and shows nothing.
C10_FailuresCaught ==
    (probe.fn = "safe_cipher_instance" /\ ret.done) =>
        /\ ~ret.res.raised
        /\ InstantiationFails =>
              /\ ret.res.obj = NoInstance
              /\ ret.res.shown = <<CreateError(Diagnostic)>>
        /\ ~InstantiationFails =>
              /\ ret.res.obj # NoInstance
              /\ ret.res.shown = <<>>

\* the three kinds of failure the probes hold: an unknown name, a text where
\* Caesar needs a number, and an Affine multiplier with no inverse
C10_Witness ==
    /\ probe.fn = "safe_cipher_instance" /\ ret.done
    /\ ret.res.obj = NoInstance
    /\ Len(ret.res.shown) = 1
    /\ \/ probe.cipher_name = "NoSuchCipher"
       \/ /\ probe.cipher_name = "Caesar"
          /\ "key" \in DOMAIN probe.user_inputs
          /\ probe.user_inputs["key"].kind = "str"
          /\ ret.res.reached
       \/ /\ probe.cipher_name = "Affine"
          /\ "a" \in DOMAIN probe.user_inputs
          /\ probe.user_inputs["a"] = IntV(2)
          /\ ret.res.shown[1].diag = "invalid key: no inverse exists (mod 26)"

\* ------------------------------------------------------------------ properties of the Affine key
RECURSIVE GCD(_, _)
GCD(m, n) == IF n = 0 THEN m ELSE GCD(n, m % n)

\* the size of the alphabet the Affine cipher works on
AlphabetSize == Len(UpperLetters)

IsCreateError(e) == e.kind = "error" /\ e.label = "Error creating cipher instance"

\* C6: a request for the Affine cipher whose multiplier a shares a factor with
\* 26 ends at instantiation: one "Error creating cipher instance" message is
\* shown and no transform is called; with a coprime multiplier (5 among them)
\* the instance is built and the transform is called.
C6_AffineNeedsCoprimeMultiplier ==
    (probe.fn = "handler" /\ probe.cipher_name = "Affine" /\ ret.done) =>
        /\ ~ret.res.raised
        /\ GCD(probe.user_inputs.a.n, AlphabetSize) # 1 =>
              /\ Len(ret.res.out) = 1
              /\ IsCreateError(ret.res.out[1])
              /\ ret.res.calls = <<StepInstantiate("Affine", probe.user_inputs)>>
        /\ GCD(probe.user_inputs.a.n, AlphabetSize) = 1 =>
              /\ \A i \in DOMAIN ret.res.out : ~IsCreateError(ret.res.out[i])
              /\ Len(ret.res.calls) = 2
              /\ ret.res.calls[2].fn = probe.mode
        /\ probe.user_inputs.a = IntV(5) =>
              /\ Len(ret.res.out) = 1
              /\ ret.res.out[1].kind = "success"

\* Encipher of HELLO was requested with a = 2, b = 9 and ended at instantiation
C6_Witness ==
    /\ probe.fn = "handler" /\ probe.cipher_name = "Affine" /\ ret.done
    /\ probe.mode = "encipher"
    /\ probe.text = Hello
    /\ probe.user_inputs = [a |-> IntV(2), b |-> IntV(9)]
    /\ Len(ret.res.out) = 1
    /\ IsCreateError(ret.res.out[1])
    /\ Len(ret.res.calls) = 1

\* ------------------------------------------------------------------ properties of the round trip
\* Decipher showed the text x as its result
DecipherGave(x) == ret.res.dec.out = <<Elem("success", "Result (decipher)", "", x)>>

\* a text Playfair gives back: an even number of letters, no J, and the two
\* letters of every pair different
PlayfairSafe(x) ==
    /\ Len(x) % 2 = 0
    /\ "J" \notin Range(x)
    /\ \A i \in 1..Len(x) : i % 2 = 1 => x[i] # x[i + 1]

Enabled(s) == {p \in DOMAIN chk[s] : chk[s][p]}

\* every combination of ticked boxes of a cipher
Toggles(cipher_name) == [ParamNames(cipher_params[cipher_name]) -> BOOLEAN]

\* C4: in each section the boxes are those of the selected cipher's catalog
\* entry, and the parameter set build_param_ui returns - the one the button's
\* handler passes to safe_cipher_instance - has exactly the ticked parameters
\* as its keys; the same holds for every catalog entry and every combination
\* of ticked boxes.
C4_DisabledParamsOmitted ==
    /\ \A s \in Sections :
          /\ DOMAIN chk[s] = ParamNames(cipher_params[selected[s]])
          /\ DOMAIN SectionInputs(s) = Enabled(s)
          /\ clicked = s =>
                /\ calls[1].fn = "safe_cipher_instance"
                /\ calls[1].inputs = SectionInputs(s)
                /\ DOMAIN calls[1].inputs = Enabled(s)
    /\ \A c \in DOMAIN cipher_params : \A use \in Toggles(c) :
          DOMAIN build_param_ui(c, use, FreshInp(c))
              = {p \in ParamNames(cipher_params[c]) : use[p]}

\* Encipher was pressed for Affine with a ticked and b not: only a was passed
C4_Witness ==
    /\ clicked = "enc"
    /\ selected["enc"] = "Affine"
    /\ chk["enc"]["a"] /\ ~chk["enc"]["b"]
    /\ DOMAIN calls[1].inputs = {"a"}
    /\ calls[1].inputs["a"] = IntV(5)

\* the section s holds Caesar with the text "13" in its ticked key and text t
CaesarThirteen(s, t) ==
    /\ clicked = s
    /\ selected[s] = "Caesar"
    /\ chk[s]["key"]
    /\ inp[s]["key"] = <<"1", "3">>
    /\ text_area[s] = t

\* C8: Encipher pressed for Caesar with key text "13" on HELLO shows the
\* result URYYB, and Decipher pressed for Caesar with key text "13" on URYYB
\* shows the result HELLO; each request instantiates, then transforms.
C8_CaesarThirteen ==
    /\ CaesarThirteen("enc", Hello) =>
          /\ out = <<Elem("success", "Result (encipher)", "", Uryyb)>>
          /\ calls = <<StepInstantiate("Caesar", [key |-> IntV(13)]),
                       StepTransform("encipher", "Caesar", Hello)>>
    /\ CaesarThirteen("dec", Uryyb) =>
          /\ out = <<Elem("success", "Result (decipher)", "", Hello)>>
          /\ calls = <<StepInstantiate("Caesar", [key |-> IntV(13)]),
                       StepTransform("decipher", "Caesar", Uryyb)>>

\* Decipher was pressed for Caesar 13 on URYYB and HELLO is shown
C8_Witness ==
    /\ CaesarThirteen("dec", Uryyb)
    /\ out[1].body = Hello

\* C9: Encipher pressed for Atbash (no parameters) on HELLO shows the result
\* SVOOL, after instantiating with the empty parameter set and transforming.
C9_AtbashHello ==
    (clicked = "enc" /\ selected["enc"] = "Atbash" /\ text_area["enc"] = Hello) =>
        /\ SectionInputs("enc") = NoInputs
        /\ out = <<Elem("success", "Result (encipher)", "", Svool)>>
        /\ calls = <<StepInstantiate("Atbash", NoInputs),
                     StepTransform("encipher", "Atbash", Hello)>>

\* Encipher was pressed for Atbash on HELLO and a result is shown
C9_Witness ==
    /\ clicked = "enc"
    /\ selected["enc"] = "Atbash"
    /\ text_area["enc"] = Hello
    /\ Len(out) = 1
    /\ out[1].kind = "success"


\* ------------------------------------------------------------------ sessions side by side
\* Each session runs the script of the page on its own; the steps of the runs
\* interleave. A run serving a button goes through build_param_ui (lines 78,
\* 95), safe_cipher_instance (102, 112), the transform (103-108, 113-118) and
\* the rest of the page (121-173).

\* the requests the sessions make: two that succeed, one whose instantiation
\* fails, and two whose transform fails
SessionRequests ==
    {Request("encipher", "Caesar", [key |-> TRUE], [key |-> <<"1", "3">>], Hello),
     Request("decipher", "Caesar", [key |-> TRUE], [key |-> <<"1", "3">>], Uryyb),
     Request("encipher", "Affine", [a |-> TRUE, b |-> TRUE], [a |-> <<"2">>, b |-> <<"9">>],
             Hello),
     Request("encipher", "Caesar", [key |-> TRUE], [key |-> <<"2", ".", "5">>], Hello),
     Request("decipher", "Playfair", [key |-> FALSE], [key |-> <<>>], Uryyb)}

InitSessions ==
    /\ cipher_params = Catalog
    /\ py_lstrip \in BOOLEAN
    /\ probe = NoProbe
    /\ ret = Pending
    /\ PageInit

\* the parameter set of request r (enc_inputs / dec_inputs)
RequestInputs(r) == build_param_ui(r.name, r.use, r.raw)

\* A session's button is pressed: its script reruns, and build_param_ui
\* parses the parameter texts of the request.
Submit(u, r) ==
    /\ sessions[u].pc = "idle"
    /\ sessions' = [sessions EXCEPT ![u] =
                       Session("parsed", r, RequestInputs(r), NoMade, <<>>, <<>>, @.last)]
    /\ UNCHANGED <<cipher_params, py_lstrip, session_state, probe, ret, page>>

\* the session after safe_cipher_instance returned made (or let an exception escape)
Instantiated(s, made) ==
    [s EXCEPT !.made = made,
              !.out = made.shown,
              !.calls = <<StepInstantiate(s.req.name, s.inputs)>>,
              !.pc = IF made.raised THEN "aborted" ELSE "instantiated"]

\* an instance kept from the run before and used again for the same cipher name
InstanceCached(s) ==
    IF s.last.req.name = s.req.name
    THEN safe_cipher_instance(s.last.req.name, RequestInputs(s.last.req))
    ELSE safe_cipher_instance(s.req.name, s.inputs)

\* cipher_obj of the run: safe_cipher_instance(enc_cipher, enc_inputs)
InstanceFor(s) == safe_cipher_instance(s.req.name, s.inputs)

\* cipher_obj held in one place for all sessions: the instance a session
\* builds replaces the one another session is about to use
InstantiateShared(u) ==
    /\ sessions[u].pc = "parsed"
    /\ sessions' = [v \in Users |->
                       IF v = u THEN Instantiated(sessions[u], InstanceFor(sessions[u]))
                       ELSE IF sessions[v].pc = "instantiated"
                            THEN [sessions[v] EXCEPT !.made = InstanceFor(sessions[u])]
                            ELSE sessions[v]]
    /\ UNCHANGED <<cipher_params, py_lstrip, session_state, probe, ret, page>>

\* The run of session u calls safe_cipher_instance (line 102 or 112).
Instantiate(u) ==
    /\ sessions[u].pc = "parsed"
    /\ sessions' = [sessions EXCEPT ![u] = Instantiated(@, InstanceFor(@))]
    /\ UNCHANGED <<cipher_params, py_lstrip, session_state, probe, ret, page>>

\* "if cipher_obj:" and the transform on the instance the run holds
ApplyResult(s) ==
    IF s.req.mode = "encipher"
    THEN AfterInstance(s.made, s.req.name, s.inputs, strip(s.req.text), "encipher", encipher,
                       "Result (encipher)", "Encipher Failed")
    ELSE AfterInstance(s.made, s.req.name, s.inputs, strip(s.req.text), "decipher", decipher,
                       "Result (decipher)", "Decipher Failed")

\* the session after the handler's body h
Applied(s, h) ==
    [s EXCEPT !.out = h.out,
              !.calls = h.calls,
              !.pc = IF h.raised THEN "aborted" ELSE "handled"]

\* The run of session u goes through lines 103-108 (or 113-118).
Apply(u) ==
    /\ sessions[u].pc = "instantiated"
    /\ sessions' = [sessions EXCEPT ![u] = Applied(@, ApplyResult(@))]
    /\ UNCHANGED <<cipher_params, py_lstrip, session_state, probe, ret, page>>

\* The run of session u ends: after the handler the rest of the page is
\* rendered (line 121); after an exception nobody caught the run is given up.
\* Its locals are gone; what it showed stays on the page.
Finish(u) ==
    /\ sessions[u].pc \in {"handled", "aborted"}
    /\ sessions' = [sessions EXCEPT ![u] =
                       IdleSession(Run(@.req, @.out, @.calls, @.pc = "aborted"))]
    /\ UNCHANGED <<cipher_params, py_lstrip, session_state, probe, ret, page>>

NextSessions ==
    \/ \E u \in Users, r \in SessionRequests : Submit(u, r)
    \/ \E u \in Users : Instantiate(u)
    \/ \E u \in Users : Apply(u)
    \/ \E u \in Users : Finish(u)

SpecSessions == InitSessions /\ [][NextSessions]_vars


\* ------------------------------------------------------------------ properties of failing transforms
\* the runs of session u that went through a handler: the run before, and
\* the run in progress once its handler is over
RunsOf(u) ==
    ({sessions[u].last} \ {NoRun})
        \cup (IF sessions[u].pc \in {"handled", "aborted"}
              THEN {Run(sessions[u].req, sessions[u].out, sessions[u].calls,
                        sessions[u].pc = "aborted")}
              ELSE {})

\* the transform of request r on the instance obj
TransformOf(r, obj) ==
    IF r.mode = "encipher" THEN encipher(obj, strip(r.text)) ELSE decipher(obj, strip(r.text))

\* request r gets an instance whose transform raises
TransformFails(r) ==
    /\ r # NoRequest
    /\ safe_cipher_instance(r.name, RequestInputs(r)).obj # NoInstance
    /\ TransformOf(r, safe_cipher_instance(r.name, RequestInputs(r)).obj).raised

\* the message a handler shows for the exception exc of its transform
Failure(r, exc) ==
    Elem("error", IF r.mode = "encipher" THEN "Encipher Failed" ELSE "Decipher Failed", exc, <<>>)

Caesar13 == Request("encipher", "Caesar", [key |-> TRUE], [key |-> <<"1", "3">>], Hello)
Caesar13Back == Request("decipher", "Caesar", [key |-> TRUE], [key |-> <<"1", "3">>], Uryyb)

\* C11: an exception of encipher or decipher never ends a run: the handler
\* shows it as the single message "Encipher Failed" / "Decipher Failed" with
\* the exception's text, the run goes on to its end, and the requests the
\* session makes afterwards are served: Caesar 13 then shows URYYB for HELLO
\* and HELLO for URYYB.
C11_TransformFailuresReported ==
    \A u \in Users :
        /\ sessions[u].pc # "aborted"
        /\ \A run \in RunsOf(u) :
              /\ ~run.fatal
              /\ TransformFails(run.req) =>
                    /\ Len(run.out) = 1
                    /\ run.out[1].kind = "error"
                    /\ run.out[1]
                         = Failure(run.req,
                                   TransformOf(run.req,
                                       safe_cipher_instance(run.req.name,
                                                            RequestInputs(run.req)).obj).exc)
        /\ (TransformFails(sessions[u].last.req) /\ sessions[u].pc = "handled") =>
              /\ sessions[u].req = Caesar13 =>
                    sessions[u].out = <<Elem("success", "Result (encipher)", "", Uryyb)>>
              /\ sessions[u].req = Caesar13Back =>
                    sessions[u].out = <<Elem("success", "Result (decipher)", "", Hello)>>

\* a run whose encipher raised went to its end, and the next request of the
\* session shows a result
C11_Witness ==
    \E u \in Users :
        /\ sessions[u].last.req.name = "Caesar"
        /\ sessions[u].last.out = <<Failure(sessions[u].last.req, "TypeError")>>
        /\ ~sessions[u].last.fatal
        /\ sessions[u].pc = "handled"
        /\ sessions[u].req = Caesar13
        /\ sessions[u].out[1].kind = "success"


\* ------------------------------------------------------------------ properties of a request's outcome
IsSuccess(e) == e.kind = "success" /\ e.label \in {"Result (encipher)", "Result (decipher)"}

IsTransformError(e) ==
    e.kind = "error" /\ e.label \in {"Encipher Failed", "Decipher Failed"}

\* the text area and the transform of the section whose button was pressed
PressedText == strip(text_area[clicked])
PressedTransform(obj) ==
    IF clicked = "enc" THEN encipher(obj, PressedText) ELSE decipher(obj, PressedText)

\* C12: a run in which Encipher or Decipher was pressed shows exactly one
\* outcome: one result (the whole text the transform returned), or one
\* "Error creating cipher instance" message (and then no transform was
\* called), or one "Encipher Failed" / "Decipher Failed" message; never two
\* elements and never none.
C12_ExactlyOneOutcome ==
    clicked \in Sections =>
        /\ Len(out) = 1
        /\ \/ /\ IsSuccess(out[1])
              /\ Len(calls) = 2
              /\ out[1].body
                   = PressedTransform(safe_cipher_instance(calls[1].cipher,
                                                           calls[1].inputs).obj).val.text
           \/ IsCreateError(out[1]) /\ Len(calls) = 1
           \/ IsTransformError(out[1]) /\ Len(calls) = 2
        /\ Cardinality({k \in {"success", "error"} : out[1].kind = k}) = 1

\* Encipher was pressed for Affine with a multiplier that has no inverse: the
\* creation error is the only element shown
C12_Witness ==
    /\ clicked = "enc"
    /\ Len(out) = 1
    /\ IsCreateError(out[1])
    /\ selected["enc"] = "Affine"


\* ------------------------------------------------------------------ the padding page
\* src/pages/Padding & Unpadding Text.py. A byte string is a sequence of
\* integers in 0..255.

\* st.number_input("Block size (bytes)", min_value=1, max_value=256, ...)
MinBlockSize == 1
MaxBlockSize == 256

\* bytes([v] * n): n bytes of value v; a ValueError when v is no byte value
BytesOf(v, n) ==
    IF v \in 0..255 THEN Return([i \in 1..n |-> v]) ELSE Raise("ValueError")

\* data + tail, for the bytes(...) result tail
Concat(data, tail) == IF tail.raised THEN tail ELSE Return(data \o tail.val)

\* pad_len of the four pad functions
PadLen(data, block_size) == block_size - (Len(data) % block_size)

pkcs7_pad(data, block_size) ==
    Concat(data, BytesOf(PadLen(data, block_size), PadLen(data, block_size)))

\* data[-n:] and data[:-n] for 1 <= n <= len(data)
LastBytes(data, n) == SubSeq(data, Len(data) - n + 1, Len(data))
DropLast(data, n) == SubSeq(data, 1, Len(data) - n)

\* the checks of pkcs7_unpad on pad_len = data[-1]
Pkcs7Strip(data, pad_len) ==
    IF pad_len < 1 \/ pad_len > Len(data) THEN Raise("ValueError")
    ELSE IF LastBytes(data, pad_len) # [i \in 1..pad_len |-> pad_len] THEN Raise("ValueError")
    ELSE Return(DropLast(data, pad_len))

pkcs7_unpad(data) ==
    IF data = <<>> THEN Raise("IndexError") ELSE Pkcs7Strip(data, data[Len(data)])

\* a + tail, for a result a and the bytes(...) result tail
Then(a, tail) == IF a.raised THEN a ELSE Concat(a.val, tail)

zero_pad(data, block_size) == Concat(data, BytesOf(0, PadLen(data, block_size)))

ansi_x923_pad(data, block_size) ==
    Then(Concat(data, BytesOf(0, PadLen(data, block_size) - 1)),
         BytesOf(PadLen(data, block_size), 1))

\* os.urandom(n): n bytes nobody chose; the run's entropy is the seed
urandom(n, seed) == [i \in 1..n |-> (seed + 37 * i * i) % 256]

iso_10126_pad(data, block_size, seed) ==
    Then(Return(data \o urandom(PadLen(data, block_size) - 1, seed)),
         BytesOf(PadLen(data, block_size), 1))

\* the keys of the registry paddings
PaddingTypes == {"PKCS7", "Zero", "ANSI X.923", "ISO 10126"}

\* pad_func(input_bytes, block_size) for pad_func of paddings[padding_type]
pad_func(padding_type, data, block_size, seed) ==
    CASE padding_type = "PKCS7" -> pkcs7_pad(data, block_size)
      [] padding_type = "Zero" -> zero_pad(data, block_size)
      [] padding_type = "ANSI X.923" -> ansi_x923_pad(data, block_size)
      [] padding_type = "ISO 10126" -> iso_10126_pad(data, block_size, seed)

\* the entropy of the runs enumerated
Seeds == {0, 201}

\* the byte values of the strings enumerated: two that look like padding
\* and a letter
DataBytes == {1, 2, 65}

PaddingProbes ==
    {[fn |-> "pkcs7", data |-> d, block_size |-> b] :
        d \in TextsUpTo(DataBytes, MaxDataLen), b \in MinBlockSize..MaxBlockSize}

\* the blocks enumerated for the four pad functions: the small ones, the
\* default, and those around the largest the form accepts
PadBlockSizes == (MinBlockSize..4) \cup {16} \cup ((MaxBlockSize - 2)..MaxBlockSize)

PadProbes ==
    {[fn |-> "pad", padding_type |-> k, data |-> d, block_size |-> b, seed |-> e] :
        k \in PaddingTypes, d \in TextsUpTo(DataBytes, MaxDataLen), b \in PadBlockSizes,
        e \in Seeds}

InitPadding ==
    /\ cipher_params = Catalog
    /\ py_lstrip \in BOOLEAN
    /\ probe \in PaddingProbes \cup PadProbes
    /\ ret = Pending
    /\ PageInit

\* pkcs7_unpad on what pkcs7_pad returned
UnpadPadded(padded) ==
    [padded |-> padded, unpadded |-> IF padded.raised THEN padded ELSE pkcs7_unpad(padded.val)]

CallPkcs7 ==
    /\ probe.fn = "pkcs7"
    /\ ret = Pending
    /\ ret' = Returned(UnpadPadded(pkcs7_pad(probe.data, probe.block_size)))
    /\ UNCHANGED <<cipher_params, py_lstrip, sessions, session_state, probe, page>>

CallPad ==
    /\ probe.fn = "pad"
    /\ ret = Pending
    /\ ret' = Returned(pad_func(probe.padding_type, probe.data, probe.block_size, probe.seed))
    /\ UNCHANGED <<cipher_params, py_lstrip, sessions, session_state, probe, page>>

NextPadding ==
    \/ CallPkcs7
    \/ CallPad

SpecPadding == InitPadding /\ [][NextPadding]_vars

\* the bytes pkcs7_pad appended to the data of the call
Appended == SubSeq(ret.res.padded.val, Len(probe.data) + 1, Len(ret.res.padded.val))

\* C13: for every block size from 1 to 256 and every input, pkcs7_pad returns
\* the input followed by bytes that all have the value of their number, and
\* pkcs7_unpad gives the input back.
C13_Pkcs7RoundTrip ==
    (probe.fn = "pkcs7" /\ ret.done) =>
        /\ ~ret.res.padded.raised
        /\ SubSeq(ret.res.padded.val, 1, Len(probe.data)) = probe.data
        /\ Len(Appended) >= 1
        /\ \A i \in DOMAIN Appended : Appended[i] = Len(Appended)
        /\ ret.res.unpadded = Return(probe.data)

\* the empty input was padded to blocks of 256 bytes and pkcs7_pad raised
C13_Witness ==
    /\ probe.fn = "pkcs7" /\ ret.done
    /\ probe.block_size = MaxBlockSize
    /\ probe.data = <<>>
    /\ ret.res.padded.raised
    /\ ret.res.padded.exc = "ValueError"

\* with block sizes up to 255 the padding is as described and is removed
C13_BelowLargestBlock ==
    (probe.fn = "pkcs7" /\ ret.done /\ probe.block_size < MaxBlockSize) =>
        /\ ~ret.res.padded.raised
        /\ \A i \in DOMAIN Appended : Appended[i] = Len(Appended)
        /\ ret.res.unpadded = Return(probe.data)


\* ------------------------------------------------------------------ the CMAC page
\* src/pages/CMAC Calculator.py

Algorithms == {"AES - CMAC", "3DES - CMAC", "Camellia - CMAC"}

VALID_KEY_LENGTHS ==
    [a \in Algorithms |->
        CASE a = "AES - CMAC" -> {16, 24, 32}
          [] a = "3DES - CMAC" -> {16, 24}
          [] a = "Camellia - CMAC" -> {16, 24, 32}]

\* the key sizes in bytes that algorithms.AES / TripleDES / Camellia accept;
\* they raise ValueError on any other
CipherKeySizes(a) ==
    CASE a = "AES - CMAC" -> {16, 24, 32, 64}
      [] a = "3DES - CMAC" -> {8, 16, 24}
      [] a = "Camellia - CMAC" -> {16, 24, 32}

HexDigits == <<"0", "1", "2", "3", "4", "5", "6", "7", "8", "9", "a", "b", "c", "d", "e", "f">>

IsHex(c) == Upper(c) \in {Upper(HexDigits[i]) : i \in DOMAIN HexDigits}
HexVal(c) == (CHOOSE i \in DOMAIN HexDigits : Upper(HexDigits[i]) = Upper(c)) - 1

\* bytes.fromhex(s): pairs of hex digits, blanks allowed between the pairs
RECURSIVE fromhex_at(_, _, _)

HexPair(s, j, acc) ==
    IF j + 1 <= Len(s) /\ IsHex(s[j]) /\ IsHex(s[j + 1])
    THEN fromhex_at(s, j + 2, Append(acc, 16 * HexVal(s[j]) + HexVal(s[j + 1])))
    ELSE Raise("ValueError")

fromhex_at(s, i, acc) ==
    IF SkipBlanks(s, i) > Len(s) THEN Return(acc) ELSE HexPair(s, SkipBlanks(s, i), acc)

fromhex(s) == fromhex_at(s, 1, <<>>)

\* What compute_cmac returns: a text starting with "Error" (the f-string and
\* the values it formats), or the hex digits of the CMAC (binascii.hexlify:
\* only 0-9 and a-f), kept as the algorithm, key and message it is the CMAC of.
CmacError(text, args) == [error |-> TRUE, text |-> text, args |-> args, mac |-> <<>>]
CmacValue(a, byte_key, byte_data) ==
    [error |-> FALSE, text |-> "", args |-> <<>>, mac |-> <<a, byte_key, byte_data>>]

InvalidHexKey == CmacError("Error: Invalid hex key or input data.", <<>>)

WrongKeyLength(algorithm, n) ==
    CmacError("Error: {algorithm} key must be one of {valid_lengths} bytes. You provided {len(byte_key)} bytes.",
              <<algorithm, n>>)

\* result.startswith("Error")
StartsWithError(result) == result.error

\* lines 32-44: the cipher object (ValueError on a key size it does not
\* accept) and the CMAC over it
CmacOver(byte_data, byte_key, algorithm) ==
    IF Len(byte_key) \notin CipherKeySizes(algorithm)
    THEN InvalidHexKey
    ELSE CmacValue(algorithm, byte_key, byte_data)

\* lines 28-30 on the decoded key
CmacWithKey(byte_data, byte_key, algorithm) ==
    IF byte_key.raised THEN InvalidHexKey
    ELSE IF Len(byte_key.val) \notin VALID_KEY_LENGTHS[algorithm]
         THEN WrongKeyLength(algorithm, Len(byte_key.val))
    ELSE CmacOver(byte_data, byte_key.val, algorithm)

\* the same without lines 28-30
CmacWithKeyUnchecked(byte_data, byte_key, algorithm) ==
    IF byte_key.raised THEN InvalidHexKey
    ELSE CmacOver(byte_data, byte_key.val, algorithm)

\* compute_cmac leaving the key length to the cipher
compute_cmac_unchecked(data, key, algorithm) ==
    CmacWithKeyUnchecked(data, fromhex(strip(key)), algorithm)

compute_cmac(data, key, algorithm) == CmacWithKey(data, fromhex(strip(key)), algorithm)

\* lines 92-96
ShowCmac(result) ==
    IF StartsWithError(result) THEN <<Elem("error", result.text, "", result.args)>>
    ELSE <<Elem("success", "CMAC successfully calculated!", "", <<>>),
           Elem("code", "", "", result.mac)>>

\* the body of "if st.button("Calculate CMAC"):"
calculate_cmac(key_input, message_input, algorithm) ==
    IF key_input = <<>> \/ message_input = <<>>
    THEN <<Elem("error", "Please provide both key and message.", "", <<>>)>>
    ELSE ShowCmac(compute_cmac(message_input, key_input, algorithm))

\* a key of n bytes written in hex
HexKey(n) == [i \in 1..(2 * n) |-> IF i % 2 = 1 THEN "a" ELSE "b"]

\* the keys typed: every length up to MaxKeyBytes, and keys with blanks
\* around and between the bytes, half a byte, and no hex at all
KeyTexts ==
    {HexKey(n) : n \in 0..MaxKeyBytes}
        \cup {<<" ">> \o HexKey(16) \o <<" ">>, HexKey(4) \o <<" ">> \o HexKey(4), <<" ">>,
              <<"a">>, <<"z", "z">>}

CmacProbes ==
    {[fn |-> f, key |-> k, message |-> m, algorithm |-> a] :
        f \in {"compute_cmac", "calculate_cmac"}, k \in KeyTexts, m \in {<<>>, <<"m">>},
        a \in Algorithms}

InitCmac ==
    /\ cipher_params = Catalog
    /\ py_lstrip \in BOOLEAN
    /\ probe \in CmacProbes
    /\ ret = Pending
    /\ PageInit

CallComputeCmac ==
    /\ probe.fn = "compute_cmac"
    /\ ret = Pending
    /\ ret' = Returned(compute_cmac(probe.message, probe.key, probe.algorithm))
    /\ UNCHANGED <<cipher_params, py_lstrip, sessions, session_state, probe, page>>

\* Calculate CMAC is pressed
ClickCalculateCmac ==
    /\ probe.fn = "calculate_cmac"
    /\ ret = Pending
    /\ ret' = Returned(calculate_cmac(probe.key, probe.message, probe.algorithm))
    /\ UNCHANGED <<cipher_params, py_lstrip, sessions, session_state, probe, page>>

NextCmac == CallComputeCmac \/ ClickCalculateCmac

SpecCmac == InitCmac /\ [][NextCmac]_vars

\* the key lengths in bytes listed for each algorithm
ListedKeyLengths(a) ==
    IF a = "3DES - CMAC" THEN {16, 24} ELSE {16, 24, 32}

\* the key of the call is hex whose number of bytes is not listed for its algorithm
InvalidKeySize ==
    /\ ~fromhex(strip(probe.key)).raised
    /\ Len(fromhex(strip(probe.key)).val) \notin ListedKeyLengths(probe.algorithm)

\* C14: for AES, 3DES and Camellia and every hex key whose byte length is not
\* listed for the algorithm, compute_cmac returns a text starting with
\* "Error"; Calculate CMAC then shows exactly one error element - that text
\* when key and message are both given - and never a CMAC value.
C14_InvalidKeySizeIsAnError ==
    /\ (probe.fn = "compute_cmac" /\ ret.done /\ InvalidKeySize) =>
          /\ StartsWithError(ret.res)
          /\ ret.res.mac = <<>>
    /\ (probe.fn = "calculate_cmac" /\ ret.done /\ InvalidKeySize) =>
          /\ Len(ret.res) = 1
          /\ ret.res[1].kind = "error"
          /\ (probe.key # <<>> /\ probe.message # <<>>) =>
                /\ ret.res[1].label
                      = compute_cmac(probe.message, probe.key, probe.algorithm).text
                /\ ret.res[1].body
                      = compute_cmac(probe.message, probe.key, probe.algorithm).args

\* Calculate CMAC was pressed for 3DES with a key of 8 bytes and a message
C14_Witness ==
    /\ probe.fn = "calculate_cmac" /\ ret.done
    /\ probe.algorithm = "3DES - CMAC"
    /\ probe.key = HexKey(8)
    /\ probe.message = <<"m">>
    /\ ret.res[1].kind = "error"
    /\ ret.res[1] = Elem("error", WrongKeyLength("3DES - CMAC", 8).text, "",
                         <<"3DES - CMAC", 8>>)


\* ------------------------------------------------------------------ properties of the order of a request
\* the texts of the ticked parameters of section s, parsed
ParsedInputs(s) == [p \in Enabled(s) |-> parse_param(StrV(inp[s][p])).val]

TransformName(s) == IF s = "enc" THEN "encipher" ELSE "decipher"

\* C15: in a run in which a button was pressed the first call is
\* safe_cipher_instance, on the selected cipher and the parsed texts of its
\* ticked parameters; the transform is called second, and exactly when that
\* call returned an instance; when it returned none no transform is called.
C15_ParseInstantiateApply ==
    clicked \in Sections =>
        /\ Len(calls) \in {1, 2}
        /\ calls[1] = StepInstantiate(selected[clicked], ParsedInputs(clicked))
        /\ \A i \in DOMAIN calls : calls[i].fn \in {"encipher", "decipher"} => i = 2
        /\ Len(calls) = 2
              <=> safe_cipher_instance(calls[1].cipher, calls[1].inputs).obj # NoInstance
        /\ Len(calls) = 2 =>
              calls[2] = StepTransform(TransformName(clicked), selected[clicked], PressedText)

\* Encipher was pressed for Affine with a = 2: the request ended at instantiation
C15_Witness ==
    /\ clicked = "enc"
    /\ selected["enc"] = "Affine"
    /\ chk["enc"]["a"]
    /\ inp["enc"]["a"] = <<"2">>
    /\ Len(calls) = 1
    /\ calls[1].inputs["a"] = IntV(2)


\* ------------------------------------------------------------------ properties of requests in sequence
CaesarFloat == Request("encipher", "Caesar", [key |-> TRUE], [key |-> <<"2", ".", "5">>], Hello)
AffineTwo ==
    Request("encipher", "Affine", [a |-> TRUE, b |-> TRUE], [a |-> <<"2">>, b |-> <<"9">>], Hello)
PlayfairBack == Request("decipher", "Playfair", [key |-> FALSE], [key |-> <<>>], Uryyb)

\* what each request shows when it is the only one ever made
Alone(r) ==
    CASE r = Caesar13 -> <<Elem("success", "Result (encipher)", "", Uryyb)>>
      [] r = Caesar13Back -> <<Elem("success", "Result (decipher)", "", Hello)>>
      [] r = AffineTwo -> <<CreateError("invalid key: no inverse exists (mod 26)")>>
      [] r = CaesarFloat -> <<Failure(r, "TypeError")>>
      [] r = PlayfairBack -> <<Failure(r, "AssertionError")>>

\* C16: whatever requests a session served before, a request shows what it
\* shows when made alone: the instance of a run is built from the cipher
\* name and parameters of that run, no run in progress means no instance
\* held, and two runs of equal requests show equal outcomes.
C16_FreshInstancePerRequest ==
    /\ \A u \in Users :
          /\ \A run \in RunsOf(u) : run.out = Alone(run.req)
          /\ sessions[u].pc = "idle" => sessions[u].made = NoMade
          /\ sessions[u].pc \in {"instantiated", "handled"} =>
                /\ sessions[u].made.forwarded = RequestInputs(sessions[u].req)
                /\ sessions[u].made.obj # NoInstance =>
                      sessions[u].made.obj.cls = sessions[u].req.name
    /\ \A u, v \in Users : \A r1 \in RunsOf(u), r2 \in RunsOf(v) :
          r1.req = r2.req => (r1.out = r2.out /\ r1.calls = r2.calls)

\* after a Caesar 13 request showed its result, the session's Caesar 2.5
\* request on the same text fails in the transform
C16_Witness ==
    \E u \in Users :
        /\ sessions[u].last.req = Caesar13
        /\ sessions[u].last.out = Alone(Caesar13)
        /\ sessions[u].pc = "handled"
        /\ sessions[u].req = CaesarFloat
        /\ sessions[u].out = <<Failure(CaesarFloat, "TypeError")>>


\* ------------------------------------------------------------------ the catalog
\* C17: after any sequence of renders, parameter edits, toggles and
\* requests, every cipher of the catalog has the parameter names and
\* defaults it started with, and the sections render the parameters of the
\* initial entry of the cipher selected.
C17_CatalogNeverMutated ==
    /\ cipher_params = Catalog
    /\ \A s \in Sections : DOMAIN chk[s] = ParamNames(Catalog[selected[s]])
    /\ \A s \in Sections : DOMAIN inp[s] = ParamNames(Catalog[selected[s]])

\* Affine selected, a edited to 2, b unticked, and the request failed with
\* the default a = 5, b = 9 still in the catalog
C17_Witness ==
    /\ clicked = "enc"
    /\ selected["enc"] = "Affine"
    /\ inp["enc"]["a"] = <<"2">>
    /\ ~chk["enc"]["b"]
    /\ Len(out) = 1
    /\ out[1].kind = "error"
    /\ DefaultOf(cipher_params["Affine"], "a") = IntV(5)
    /\ DefaultOf(cipher_params["Affine"], "b") = IntV(9)


\* ------------------------------------------------------------------ sessions side by side
\* what the handler of request r gives when its run is the only one
SoloRun(r) ==
    IF r.mode = "encipher" THEN encipher_handler(r.name, RequestInputs(r), r.text)
    ELSE decipher_handler(r.name, RequestInputs(r), r.text)

\* the session's run has come through its handler
Through(s) == s.pc = "handled" \/ (s.pc = "aborted" /\ Len(s.calls) = 2)

\* C18: however the runs of the sessions interleave, a run holds the
\* instance built from its own request, and what it has shown and called
\* once through its handler is what its request gives when run alone; the
\* catalog all runs read is as it started.
C18_SessionsIsolated ==
    /\ cipher_params = Catalog
    /\ \A u \in Users :
          /\ sessions[u].pc \in {"parsed", "instantiated", "handled", "aborted"} =>
                sessions[u].inputs = RequestInputs(sessions[u].req)
          /\ sessions[u].pc = "instantiated" =>
                sessions[u].made = safe_cipher_instance(sessions[u].req.name,
                                                        RequestInputs(sessions[u].req))
          /\ Through(sessions[u]) =>
                /\ sessions[u].out = SoloRun(sessions[u].req).out
                /\ sessions[u].calls = SoloRun(sessions[u].req).calls
          /\ \A run \in RunsOf(u) :
                run.out = SoloRun(run.req).out /\ run.calls = SoloRun(run.req).calls

\* two sessions are in their runs at once: one has shown the result of its
\* Caesar 13 request, the other the failure of its Caesar 2.5 request
C18_Witness ==
    \E u, v \in Users :
        /\ u # v
        /\ sessions[u].req = Caesar13
        /\ sessions[u].pc = "handled"
        /\ sessions[u].out = <<Elem("success", "Result (encipher)", "", Uryyb)>>
        /\ sessions[v].req = CaesarFloat
        /\ sessions[v].pc = "handled"
        /\ sessions[v].out = <<Failure(CaesarFloat, "TypeError")>>


\* ------------------------------------------------------------------ the effects of instantiation
\* what a call of safe_cipher_instance leaves alone: the mapping and name it
\* was given, the catalog, the widgets and what the page showed before
InstantiationFrame ==
    /\ probe' = probe
    /\ cipher_params' = cipher_params
    /\ page' = page
    /\ sessions' = sessions
    /\ session_state' = session_state

\* C19: a call of safe_cipher_instance, succeeding or failing, leaves the
\* caller's mapping and the catalog unchanged and changes nothing else that
\* can be observed: it shows nothing, its result is its only effect.
C19_NoSideEffects ==
    [][CallSafeCipherInstance => (InstantiationFrame /\ ret'.res.shown = <<>>)]_vars

\* C19 amended: a call of safe_cipher_instance leaves the caller's mapping
\* and the catalog unchanged; when it returns an instance it shows nothing,
\* and when it returns none it has shown one "Error creating cipher
\* instance" message on the page, its one effect beside the result.
C19_OnlyFailureMessageShown ==
    [][CallSafeCipherInstance =>
          /\ InstantiationFrame
          /\ ~ret'.res.raised
          /\ ret'.res.obj # NoInstance => ret'.res.shown = <<>>
          /\ ret'.res.obj = NoInstance =>
                (Len(ret'.res.shown) = 1 /\ IsCreateError(ret'.res.shown[1]))]_vars

\* Affine was asked for with a = 2 alone: no instance, one message shown,
\* the mapping and the catalog as they were
C19_Witness ==
    /\ probe.fn = "safe_cipher_instance" /\ ret.done
    /\ probe.cipher_name = "Affine"
    /\ probe.user_inputs = [a |-> IntV(2)]
    /\ ret.res.obj = NoInstance
    /\ Len(ret.res.shown) = 1
    /\ IsCreateError(ret.res.shown[1])
    /\ cipher_params = Catalog


\* ------------------------------------------------------------------ the kinds of parsed values
\* parse_param was called with a text and has returned
ParsedText == probe.fn = "parse_param" /\ ret.done /\ probe.val.kind = "str"

\* C20: the value parse_param pairs with a raw parameter text is an
\* integer, a string, a list or null, and nothing of another kind.
C20_ParsedKindsFour == ParsedText => ret.res.val.kind \in {"int", "str", "list", "null"}

\* C20 amended: the value parse_param pairs with a raw parameter text is
\* null for "" and "None", the text itself when the text is no literal, and
\* otherwise the value of the literal, of whatever kind the literal is:
\* "2.5" gives a float, "True" a boolean, "1,3" a tuple, "..." Ellipsis,
\* beside integers, strings, lists and None.
C20_ParsedIsLiteralOfAnyKind ==
    ParsedText =>
        /\ ret.res.val.kind \in {"int", "str", "list", "null"}
              \/ /\ ~literal_eval(probe.val).raised
                 /\ ret.res.val = literal_eval(probe.val).val
                 /\ ret.res.val.kind \in {"float", "bool", "tuple", "ellipsis"}
        /\ (ret.res.val.kind = "str" /\ literal_eval(probe.val).raised) => ret.res.val = probe.val
        /\ probe.val = StrV(<<"2", ".", "5">>) => ret.res.val = FloatV(25, 1)
        /\ probe.val = StrV(<<"T", "r", "u", "e">>) => ret.res.val = BoolV(TRUE)
        /\ probe.val = StrV(<<"1", ",", "3">>) => ret.res.val = TupleV(<<IntV(1), IntV(3)>>)
        /\ probe.val = StrV(<<".", ".", ".">>) => ret.res.val = EllipsisV

\* the text "2.5" was parsed into a float
C20_Witness ==
    /\ ParsedText
    /\ probe.val = StrV(<<"2", ".", "5">>)
    /\ ret.res.val.kind = "float"


\* ------------------------------------------------------------------ dispatch of the transform
Blank == " "

\* t is full without its leading and trailing blanks
TrimOf(t, full) ==
    /\ t # <<>> => (t[1] # Blank /\ t[Len(t)] # Blank)
    /\ \E i \in 0..(Len(full) - Len(t)) :
          /\ SubSeq(full, i + 1, i + Len(t)) = t
          /\ \A j \in 1..Len(full) : (j <= i \/ j > i + Len(t)) => full[j] = Blank

\* the transform calls of the current run
TransformCalls == {i \in DOMAIN calls : calls[i].fn # "safe_cipher_instance"}

\* C21: in a run where Encipher (Decipher) was pressed, every transform
\* called is encipher (decipher), called on the cipher of that section with
\* the section's text without its leading and trailing blanks, and a result
\* shown is what that transform returns for that trimmed text.
C21_DispatchMatchesMode ==
    clicked \in Sections =>
        /\ \A i \in TransformCalls :
              /\ calls[i].fn = (IF clicked = "enc" THEN "encipher" ELSE "decipher")
              /\ calls[i].cipher = selected[clicked]
              /\ TrimOf(calls[i].text, text_area[clicked])
        /\ Cardinality(TransformCalls) <= 1
        /\ (Len(out) = 1 /\ out[1].kind = "success") =>
              /\ out[1].label = (IF clicked = "enc" THEN "Result (encipher)"
                                 ELSE "Result (decipher)")
              /\ \E t \in {SubSeq(text_area[clicked], a, b) :
                               a \in 1..(Len(text_area[clicked]) + 1),
                               b \in 0..Len(text_area[clicked])} :
                    /\ TrimOf(t, text_area[clicked])
                    /\ LET obj == safe_cipher_instance(selected[clicked],
                                                       SectionInputs(clicked)).obj
                       IN  out[1].body = (IF clicked = "enc" THEN encipher(obj, t)
                                          ELSE decipher(obj, t)).val.text

\* Decipher was pressed on " HELLO " with blanks around it: decipher was
\* called on "HELLO"
C21_Witness ==
    /\ clicked = "dec"
    /\ text_area["dec"] = <<" ", "H", "E", "L", "L", "O", " ">>
    /\ Len(calls) = 2
    /\ calls[2].fn = "decipher"
    /\ calls[2].text = Hello
    /\ Len(out) = 1
    /\ out[1].kind = "success"


\* ------------------------------------------------------------------ defaults through the form
\* the defaults of the catalog, of every cipher
CatalogDefaults ==
    UNION {{cipher_params[c][i].default : i \in DOMAIN cipher_params[c]} :
              c \in DOMAIN cipher_params}

\* the value of default d as build_param_ui parses it for the pre-filled text
ParsedDefault(d) == parse_param(d).val

\* what the pre-filled text of default d is parsed into when it is left as it is
ThroughForm(d) == parse_param(StrV(StrOrEmpty(ParsedDefault(d)))).val

\* every box of section s is ticked and every input holds its pre-filled text
Untouched(s) ==
    /\ \A p \in DOMAIN chk[s] : chk[s][p]
    /\ inp[s] = [p \in DOMAIN chk[s] |->
                    StrOrEmpty(ParsedDefault(DefaultOf(Catalog[selected[s]], p)))]

\* C22: the pre-filled text of every default of every cipher parses back
\* into the parsed default (Gronsfeld's into the list [5, 4, 7, 9], Caesar's
\* into the integer 13), so a request with every parameter ticked and no
\* input edited asks for the cipher with exactly the parsed defaults.
C22_DefaultsRoundTrip ==
    /\ \A d \in CatalogDefaults : ThroughForm(d) = ParsedDefault(d)
    /\ ThroughForm(DefaultOf(cipher_params["Gronsfeld"], "key"))
          = ListV(<<IntV(5), IntV(4), IntV(7), IntV(9)>>)
    /\ ThroughForm(DefaultOf(cipher_params["Caesar"], "key")) = IntV(13)
    /\ (clicked \in Sections /\ Untouched(clicked)) =>
          /\ calls[1].inputs
               = [p \in ParamNames(Catalog[selected[clicked]]) |->
                     ParsedDefault(DefaultOf(Catalog[selected[clicked]], p))]
          /\ safe_cipher_instance(selected[clicked], calls[1].inputs).forwarded
               = calls[1].inputs

\* Decipher was pressed for Affine with nothing edited: the constructor got
\* a = 5 and b = 9
C22_Witness ==
    /\ clicked = "dec"
    /\ selected["dec"] = "Affine"
    /\ Untouched("dec")
    /\ calls[1].inputs = [a |-> IntV(5), b |-> IntV(9)]
    /\ Len(calls) = 2


\* ------------------------------------------------------------------ empty inputs
\* the ticked parameters of section s whose input is empty or holds "None"
NullTyped(s) == {p \in Enabled(s) : inp[s][p] \in {<<>>, NoneText}}

\* C23: a ticked parameter whose input is empty or holds "None" stays in the
\* parameter set with the value None, and safe_cipher_instance passes that
\* None to the constructor; the keys missing from the set passed are exactly
\* those of the unticked boxes.
C23_NullParamsKept ==
    clicked \in Sections =>
        /\ \A p \in NullTyped(clicked) :
              /\ p \in DOMAIN calls[1].inputs
              /\ calls[1].inputs[p] = NoneV
              /\ LET made == safe_cipher_instance(selected[clicked], calls[1].inputs)
                 IN  /\ made.reached
                     /\ p \in DOMAIN made.forwarded
                     /\ made.forwarded[p] = NoneV
        /\ ParamNames(Catalog[selected[clicked]]) \ DOMAIN calls[1].inputs
              = {p \in DOMAIN chk[clicked] : ~chk[clicked][p]}

\* Encipher was pressed for Caesar with its ticked key emptied: the
\* constructor was given key = None and its failure was shown
C23_Witness ==
    /\ clicked = "enc"
    /\ selected["enc"] = "Caesar"
    /\ chk["enc"]["key"]
    /\ inp["enc"]["key"] = <<>>
    /\ calls[1].inputs = [key |-> NoneV]
    /\ out = <<CreateError("unsupported operand type(s) for %")>>

\* the same with the text "None" in the key
C23_NoneTextReached ==
    /\ clicked = "dec"
    /\ selected["dec"] = "Caesar"
    /\ inp["dec"]["key"] = NoneText
    /\ calls[1].inputs = [key |-> NoneV]


\* ------------------------------------------------------------------ the four pad functions
\* the smallest multiple of block_size strictly greater than n
NextMultiple(n, block_size) ==
    CHOOSE m \in (n + 1)..(n + block_size) :
        m % block_size = 0 /\ \A k \in (n + 1)..(m - 1) : k % block_size # 0

\* C24: for every block size from 1 to 256 and every input, each of the four
\* pad functions returns, without raising, the input followed by 1 to
\* block_size bytes (each a byte value) that bring the length to the
\* smallest multiple of block_size strictly greater than the input's.
C24_PadReachesNextBlock ==
    (probe.fn = "pad" /\ ret.done) =>
        /\ ~ret.res.raised
        /\ SubSeq(ret.res.val, 1, Len(probe.data)) = probe.data
        /\ Len(ret.res.val) = NextMultiple(Len(probe.data), probe.block_size)
        /\ Len(ret.res.val) - Len(probe.data) \in 1..probe.block_size
        /\ \A i \in DOMAIN ret.res.val : ret.res.val[i] \in 0..255

\* the empty input was padded to a block of 256 bytes by ANSI X.923 and the
\* function raised
C24_Witness ==
    /\ probe.fn = "pad" /\ ret.done
    /\ probe.padding_type = "ANSI X.923"
    /\ probe.block_size = MaxBlockSize
    /\ probe.data = <<>>
    /\ ret.res.raised
    /\ ret.res.exc = "ValueError"

\* it holds of zero_pad for every block size, and of the other three
\* whenever the number of bytes to append is below 256
C24_PadBelow256 ==
    (probe.fn = "pad" /\ ret.done
        /\ (probe.padding_type = "Zero" \/ PadLen(probe.data, probe.block_size) < 256)) =>
        /\ ~ret.res.raised
        /\ SubSeq(ret.res.val, 1, Len(probe.data)) = probe.data
        /\ Len(ret.res.val) = NextMultiple(Len(probe.data), probe.block_size)
        /\ \A i \in DOMAIN ret.res.val : ret.res.val[i] \in 0..255


\* ------------------------------------------------------------------ the Compute handler of the padding page
\* src/pages/Padding & Unpadding Text.py, lines 60-136. A text is a sequence
\* of characters; a decoded text is a sequence of code points.

\* a character outside ASCII (U+00E9)
EAcute == "e-acute"

\* ord(c) for the characters of the texts typed
ord(c) ==
    IF c \in Digits THEN 48 + DigitVal(c)
    ELSE IF c \in Range(UpperLetters)
         THEN 64 + (CHOOSE i \in DOMAIN UpperLetters : UpperLetters[i] = c)
    ELSE IF c \in Range(LowerLetters)
         THEN 96 + (CHOOSE i \in DOMAIN LowerLetters : LowerLetters[i] = c)
    ELSE IF c = EAcute THEN 233
    ELSE 32

\* the UTF-8 bytes of one code point below U+0800
Utf8Of(cp) == IF cp < 128 THEN <<cp>> ELSE <<192 + (cp \div 64), 128 + (cp % 64)>>

\* input_text.encode("utf-8")
RECURSIVE encode_utf8(_)
encode_utf8(text) ==
    IF text = <<>> THEN <<>> ELSE Utf8Of(ord(Head(text))) \o encode_utf8(Tail(text))

\* the UTF-8 bytes of a decoded text
RECURSIVE encode_code_points(_)
encode_code_points(cps) ==
    IF cps = <<>> THEN <<>> ELSE Utf8Of(Head(cps)) \o encode_code_points(Tail(cps))

\* output_bytes.decode("utf-8") from byte i on, for sequences of one and two
\* bytes; any other byte from 0x80 up is a UnicodeDecodeError (a byte from
\* 0xE0 up starts a longer sequence: the inputs enumerated hold none)
RECURSIVE decode_from(_, _, _)
decode_from(data, i, acc) ==
    IF i > Len(data) THEN Return(acc)
    ELSE IF data[i] < 128 THEN decode_from(data, i + 1, Append(acc, data[i]))
    ELSE IF data[i] \in 194..223 /\ i < Len(data) /\ data[i + 1] \in 128..191
         THEN decode_from(data, i + 2,
                          Append(acc, (data[i] - 192) * 64 + (data[i + 1] - 128)))
    ELSE Raise("UnicodeDecodeError")

decode_utf8(data) == decode_from(data, 1, <<>>)

\* output_bytes.hex()
hex(data) ==
    [i \in 1..(2 * Len(data)) |->
        IF i % 2 = 1 THEN HexDigits[(data[(i + 1) \div 2] \div 16) + 1]
        ELSE HexDigits[(data[i \div 2] % 16) + 1]]

\* ''.join(input_text.split())
NotBlank(c) == c # " "
hex_clean(input_text) == SelectSeq(input_text, NotBlank)

\* data.rstrip(b'\x00')
RECURSIVE zero_unpad(_)
zero_unpad(data) ==
    IF data # <<>> /\ data[Len(data)] = 0 THEN zero_unpad(DropLast(data, 1)) ELSE Return(data)

\* the checks of ansi_x923_unpad on pad_len = data[-1]
AnsiStrip(data, pad_len) ==
    IF pad_len < 1 \/ pad_len > Len(data) THEN Raise("ValueError")
    ELSE IF SubSeq(data, Len(data) - pad_len + 1, Len(data) - 1) # [i \in 1..(pad_len - 1) |-> 0]
         THEN Raise("ValueError")
    ELSE Return(DropLast(data, pad_len))

ansi_x923_unpad(data) ==
    IF data = <<>> THEN Raise("IndexError") ELSE AnsiStrip(data, data[Len(data)])

IsoStrip(data, pad_len) ==
    IF pad_len < 1 \/ pad_len > Len(data) THEN Raise("ValueError")
    ELSE Return(DropLast(data, pad_len))

iso_10126_unpad(data) ==
    IF data = <<>> THEN Raise("IndexError") ELSE IsoStrip(data, data[Len(data)])

\* unpad_func(input_bytes) for unpad_func of paddings[padding_type]
unpad_func(padding_type, data) ==
    CASE padding_type = "PKCS7" -> pkcs7_unpad(data)
      [] padding_type = "Zero" -> zero_unpad(data)
      [] padding_type = "ANSI X.923" -> ansi_x923_unpad(data)
      [] padding_type = "ISO 10126" -> iso_10126_unpad(data)

\* lines 108-115: the bytes of the hex typed, unpadded
UnpadHex(padding_type, clean) ==
    IF Len(clean) = 0 \/ Len(clean) % 2 # 0 THEN Raise("ValueError")
    ELSE IF fromhex(clean).raised THEN Raise("ValueError")
    ELSE unpad_func(padding_type, fromhex(clean).val)

\* output_bytes of lines 104-115
output_bytes(st, seed) ==
    IF st.action = "Pad"
    THEN pad_func(st.padding_type, encode_utf8(st.input_text), st.block_size, seed)
    ELSE UnpadHex(st.padding_type, hex_clean(st.input_text))

\* str(e), kept as the exception it is the text of (none of the handler's
\* exceptions has an empty text)
ErrorText(r) == [kind |-> "str", of |-> r.exc]

\* what a key of st holds, None when it is not set (st.session_state.get)
Get(st, k) == IF k \in DOMAIN st THEN st[k] ELSE NoneV

\* st with the keys of upd set
Update(st, upd) ==
    [k \in DOMAIN st \cup DOMAIN upd |-> IF k \in DOMAIN upd THEN upd[k] ELSE st[k]]

\* the except branch (lines 122-125)
Failed(st, r) == Update(st, [output_hex |-> <<>>, output_text |-> <<>>, error |-> ErrorText(r)])

\* an except branch that stores the error only: lines 117-118 have run
\* when the decoding raises
StoredErrorOnly(st, r, text) ==
    IF r.raised THEN Update(st, [error |-> ErrorText(r)])
    ELSE IF text.raised
         THEN Update(st, [output_hex |-> hex(r.val), error |-> ErrorText(text)])
    ELSE Update(st, [output_hex |-> hex(r.val), output_text |-> text.val, error |-> NoneV])

\* lines 117-125 for output_bytes r and the text to store beside its hex
Stored(st, r, text) ==
    IF r.raised THEN Failed(st, r)
    ELSE IF text.raised THEN Failed(st, text)
    ELSE Update(st, [output_hex |-> hex(r.val), output_text |-> text.val, error |-> NoneV])

\* the text of line 118-120: the decoded bytes for Unpad, "" for Pad
TextBeside(st, r) ==
    IF r.raised THEN r ELSE IF st.action = "Unpad" THEN decode_utf8(r.val) ELSE Return(<<>>)

\* session_state after the body of "if compute:"
compute_handler(st, seed) ==
    Stored(st, output_bytes(st, seed), TextBeside(st, output_bytes(st, seed)))

\* the page as first rendered: action "Pad" (line 61), the first padding,
\* block size 16, nothing typed, no result stored
FirstRender == [action |-> "Pad", padding_type |-> "PKCS7", block_size |-> 16, input_text |-> <<>>]

\* the block sizes and texts a user of the model enters
FormBlockSizes == {2, 16, MaxBlockSize}
FormTexts ==
    {<<>>, <<"A">>, <<EAcute>>, <<"4", "1", "0", "1">>, <<"4", "1", " ", "0", "1">>,
     <<"f", "f", "0", "1">>, <<"0", "0", "0", "0">>, <<"4">>, <<"z", "z">>}

InitPaddingPage ==
    /\ cipher_params = Catalog
    /\ py_lstrip \in BOOLEAN
    /\ probe = NoProbe
    /\ ret = Pending
    /\ selected = [s \in Sections |-> SortedCipherNames[1]]
    /\ chk = [s \in Sections |-> FreshChk(SortedCipherNames[1])]
    /\ inp = [s \in Sections |-> FreshInp(SortedCipherNames[1])]
    /\ text_area = [s \in Sections |-> IF s = "enc" THEN <<"H", "E", "L", "L", "O">> ELSE <<>>]
    /\ clicked = "none"
    /\ out = <<>>
    /\ calls = <<>>
    /\ sessions = [u \in Users |-> IdleSession(NoRun)]
    /\ session_state = FirstRender

\* the user changes one widget of the Input column (k: its key or, for the
\* number input and the radio, the name it is read by); the script reruns
\* and no result key is touched
SetWidget(k, v) ==
    /\ session_state[k] # v
    /\ session_state' = [session_state EXCEPT ![k] = v]
    /\ clicked' = "none"
    /\ UNCHANGED <<cipher_params, py_lstrip, sessions, probe, ret, widgets, out, calls>>

\* the user presses Compute
Compute(seed) ==
    /\ session_state' = compute_handler(session_state, seed)
    /\ clicked' = "compute"
    /\ UNCHANGED <<cipher_params, py_lstrip, sessions, probe, ret, widgets, out, calls>>

NextPaddingPage ==
    \/ \E b \in FormBlockSizes : SetWidget("block_size", b)
    \/ \E k \in PaddingTypes : SetWidget("padding_type", k)
    \/ \E t \in FormTexts : SetWidget("input_text", t)
    \/ \E a \in {"Pad", "Unpad"} : SetWidget("action", a)
    \/ \E seed \in Seeds : Compute(seed)

SpecPaddingPage == InitPaddingPage /\ [][NextPaddingPage]_vars


\* ------------------------------------------------------------------ the stored result of the padding page
\* the stored error is set
ErrorSet == Get(session_state, "error") # NoneV

\* the key k is stored and holds the empty text
StoredEmpty(k) == k \in DOMAIN session_state /\ session_state[k] = <<>>

\* what the run that has just computed output_bytes r has stored
ComputeStored(r) ==
    IF r.raised \/ (session_state.action = "Unpad" /\ decode_utf8(r.val).raised)
    THEN ErrorSet /\ StoredEmpty("output_hex") /\ StoredEmpty("output_text")
    ELSE /\ "error" \in DOMAIN session_state /\ session_state["error"] = NoneV
         /\ Get(session_state, "output_hex") = hex(r.val)
         /\ session_state.action = "Pad" => StoredEmpty("output_text")
         /\ session_state.action = "Unpad" =>
               encode_code_points(Get(session_state, "output_text")) = r.val

\* C25: after any sequence of Compute actions and changes of the form, a
\* stored error comes with an empty output_hex and an empty output_text
\* (also when the decoding fails after the hex was stored), and after a
\* Compute that succeeded error is None, output_hex is the hex of its
\* result, and output_text is empty for Pad and the decoded result for Unpad.
C25_ResultNeverMixed ==
    /\ ErrorSet => (StoredEmpty("output_hex") /\ StoredEmpty("output_text"))
    /\ clicked = "compute" =>
          \E seed \in Seeds : ComputeStored(output_bytes(session_state, seed))

\* Unpad was computed on "ff01": the byte ff was unpadded, its hex stored,
\* the decoding raised, and the error is stored with both outputs empty
C25_Witness ==
    /\ clicked = "compute"
    /\ session_state.action = "Unpad"
    /\ session_state.input_text = <<"f", "f", "0", "1">>
    /\ ErrorSet
    /\ session_state["error"] = [kind |-> "str", of |-> "UnicodeDecodeError"]
    /\ StoredEmpty("output_hex")
    /\ StoredEmpty("output_text")

\* ------------------------------------------------------------------ the Text Hash page
\* src/pages/Text Hash.py. A digest is kept as the algorithm, the bytes and
\* the number of bytes it is the hex digest of; EmptyText is "".
Hexdigest(algo, data, n) == [algo |-> algo, data |-> data, bytes |-> n]
EmptyText == Hexdigest("", <<>>, 0)

\* the encodings and hash functions a user of the model selects (of the
\* eleven encodings of line 16 and of hashlib.algorithms_guaranteed)
FormEncodings == {"utf-8", "ascii", "latin-1"}
FormHashes == {"blake2b", "md5", "shake_128"}

\* the size in bytes of a digest of the hash function
DigestSize(algo) == IF algo = "md5" THEN 16 ELSE 64

\* text.encode(encoding) for the code points cps of the text
EncodeAs(cps, encoding) ==
    CASE encoding = "utf-8" -> Return(encode_code_points(cps))
      [] encoding = "ascii" ->
            IF \E i \in DOMAIN cps : cps[i] >= 128 THEN Raise("UnicodeEncodeError")
            ELSE Return(cps)
      [] encoding = "latin-1" ->
            IF \E i \in DOMAIN cps : cps[i] >= 256 THEN Raise("UnicodeEncodeError")
            ELSE Return(cps)
      [] OTHER -> Raise("LookupError")

\* input_text.encode(selected_encoding)
encoded_text(input_text, selected_encoding) ==
    EncodeAs([i \in DOMAIN input_text |-> ord(input_text[i])], selected_encoding)

\* lines 41-45: h.hexdigest(64) for the shake functions, h.hexdigest() otherwise
hexdigest(selected_hash, data) ==
    IF selected_hash \in {"shake_128", "shake_256"} THEN Hexdigest(selected_hash, data, 64)
    ELSE Hexdigest(selected_hash, data, DigestSize(selected_hash))

\* What the body of "if compute:" did: the local output_hash, the session
\* state, and the warnings shown.
HashRun(output_hash, st, warnings) == [output_hash |-> output_hash, st |-> st, warned |-> warnings]

\* the handler also storing the empty local output_hash when no hash was made
hash_handler_storing_always(st) ==
    IF strip(st.input_text) = <<>>
    THEN HashRun(EmptyText, Update(st, [output_hash |-> EmptyText]),
                 <<"Please enter some input text to hash.">>)
    ELSE IF encoded_text(st.input_text, st.enc).raised
         THEN HashRun(EmptyText, Update(st, [output_hash |-> EmptyText]),
                      <<encoded_text(st.input_text, st.enc).exc>>)
    ELSE HashRun(hexdigest(st.hash, encoded_text(st.input_text, st.enc).val),
                 Update(st, [output_hash |->
                                hexdigest(st.hash, encoded_text(st.input_text, st.enc).val)]),
                 <<>>)

\* lines 33-54
hash_handler(st) ==
    IF strip(st.input_text) = <<>>
    THEN HashRun(EmptyText, st, <<"Please enter some input text to hash.">>)
    ELSE IF encoded_text(st.input_text, st.enc).raised
         THEN HashRun(EmptyText, st, <<encoded_text(st.input_text, st.enc).exc>>)
    ELSE HashRun(hexdigest(st.hash, encoded_text(st.input_text, st.enc).val),
                 Update(st, [output_hash |->
                                hexdigest(st.hash, encoded_text(st.input_text, st.enc).val)]),
                 <<>>)

\* lines 56-61: the stored hash stands in for an empty local output_hash,
\* and the result is the value of the "Output Hash" text area
ShowHash(run) ==
    Update(run.st,
           [output_hash_display |->
               IF "output_hash" \in DOMAIN run.st /\ run.output_hash = EmptyText
               THEN run.st["output_hash"] ELSE run.output_hash])

\* the texts typed into "Input Text"
HashTexts == {<<>>, <<" ">>, <<"A">>, <<" ", "A">>, <<EAcute>>}

InitTextHash ==
    /\ cipher_params = Catalog
    /\ py_lstrip \in BOOLEAN
    /\ probe = NoProbe
    /\ ret = Pending
    /\ selected = [s \in Sections |-> SortedCipherNames[1]]
    /\ chk = [s \in Sections |-> FreshChk(SortedCipherNames[1])]
    /\ inp = [s \in Sections |-> FreshInp(SortedCipherNames[1])]
    /\ text_area = [s \in Sections |-> IF s = "enc" THEN <<"H", "E", "L", "L", "O">> ELSE <<>>]
    /\ clicked = "none"
    /\ out = <<>>
    /\ calls = <<>>
    /\ sessions = [u \in Users |-> IdleSession(NoRun)]
    /\ session_state = [input_text |-> <<>>, enc |-> "utf-8", hash |-> "blake2b",
                        output_hash_display |-> EmptyText]

\* the user changes the text, the encoding or the hash function; the
\* script reruns with compute false
SetHashWidget(k, v) ==
    /\ session_state[k] # v
    /\ session_state' = ShowHash(HashRun(EmptyText, [session_state EXCEPT ![k] = v], <<>>))
    /\ clicked' = "none"
    /\ UNCHANGED <<cipher_params, py_lstrip, sessions, probe, ret, widgets, out, calls>>

\* the user presses Compute
ComputeHash ==
    /\ session_state' = ShowHash(hash_handler(session_state))
    /\ clicked' = "compute"
    /\ UNCHANGED <<cipher_params, py_lstrip, sessions, probe, ret, widgets, out, calls>>

NextTextHash ==
    \/ \E t \in HashTexts : SetHashWidget("input_text", t)
    \/ \E e \in FormEncodings : SetHashWidget("enc", e)
    \/ \E h \in FormHashes : SetHashWidget("hash", h)
    \/ ComputeHash

SpecTextHash == InitTextHash /\ [][NextTextHash]_vars

\* the hash stored, "" when none is
StoredHash(st) == IF "output_hash" \in DOMAIN st THEN st["output_hash"] ELSE EmptyText

\* a Compute on the widgets of st produces a hash: the text is not blank and
\* the encoding can write it
ProducesHash(st) ==
    /\ \E i \in DOMAIN st.input_text : st.input_text[i] # " "
    /\ st.enc = "ascii" => \A i \in DOMAIN st.input_text : st.input_text[i] # EAcute

\* C26: a Compute that produces no hash (blank text, a text the encoding
\* cannot write) leaves the stored output_hash as it was, and one that
\* produces a hash stores it; the hash displayed is always the stored one,
\* "" while none is: that of the latest Compute that produced one, not of
\* the current input.
C26_FailedComputeKeepsHash ==
    /\ [](session_state.output_hash_display = StoredHash(session_state))
    /\ [][(ComputeHash /\ ~ProducesHash(session_state)) =>
             /\ ("output_hash" \in DOMAIN session_state')
                   = ("output_hash" \in DOMAIN session_state)
             /\ StoredHash(session_state') = StoredHash(session_state)]_vars
    /\ [][(ComputeHash /\ ProducesHash(session_state)) =>
             /\ StoredHash(session_state') # EmptyText
             /\ StoredHash(session_state').algo = session_state.hash
             /\ encoded_text(session_state.input_text, session_state.enc)
                   = Return(StoredHash(session_state').data)]_vars
    /\ [][~ComputeHash => StoredHash(session_state') = StoredHash(session_state)]_vars

\* Compute was pressed on a text that ascii cannot write while the hash of
\* "A" was stored: that hash is still stored and displayed
C26_Witness ==
    /\ clicked = "compute"
    /\ session_state.input_text = <<EAcute>>
    /\ session_state.enc = "ascii"
    /\ "output_hash" \in DOMAIN session_state
    /\ session_state["output_hash"].data = <<65>>
    /\ session_state.output_hash_display = session_state["output_hash"]


\* ------------------------------------------------------------------ the two sections
\* the widgets of section s
SectionWidgets(s) == <<selected[s], chk[s], inp[s], text_area[s]>>

\* what the button of section s shows and calls, from the widgets of s alone
OwnOutcome(s) ==
    IF s = "enc" THEN encipher_handler(selected[s], SectionInputs(s), text_area[s])
    ELSE decipher_handler(selected[s], SectionInputs(s), text_area[s])

\* C27: a step that changes a widget of one section leaves every widget of
\* the other section as it was, and the parameter set a pressed button
\* passes on and what it shows and calls are given by the cipher, ticks,
\* parameter texts and text of its own section.
C27_SectionsDoNotInterfere ==
    /\ [][\A s \in Sections : \A o \in Sections \ {s} :
             SectionWidgets(s)' # SectionWidgets(s) => SectionWidgets(o)' = SectionWidgets(o)]_vars
    /\ [](clicked \in Sections =>
             /\ calls[1].inputs = build_param_ui(selected[clicked], chk[clicked], inp[clicked])
             /\ out = OwnOutcome(clicked).out
             /\ calls = OwnOutcome(clicked).calls)

\* Decipher gave HELLO for Caesar while the encipher section holds Affine
\* with a multiplier its constructor rejects
C27_Witness ==
    /\ clicked = "dec"
    /\ selected["dec"] = "Caesar"
    /\ text_area["dec"] = Uryyb
    /\ out = <<Elem("success", "Result (decipher)", "", Hello)>>
    /\ selected["enc"] = "Affine"
    /\ chk["enc"]["a"]
    /\ inp["enc"]["a"] = <<"2">>


====
